---- MODULE Spec2Model ----
(***************************************************************************)
(* Model of the shared exchange core (BaseExchange), the Hyperliquid       *)
(* adapter built on it, the transport helper makeRequest and the error     *)
(* taxonomy.  Every operation runs against an exchange whose orders,       *)
(* balances and ticker are part of the state; the answer to each outbound  *)
(* request is either the exchange's own answer or a fault of the wire.     *)
(* A method of the adapter or the core is the set of the outcomes it can   *)
(* end with: one for every way the wire can answer its requests.           *)
(***************************************************************************)
EXTENDS Integers, Sequences, FiniteSets, TLC

VARIABLES core, exchange, op, result, trace, phase

vars == <<core, exchange, op, result, trace, phase>>

----------------------------------------------------------------------------
(* Bounds of the model. *)

MaxBal == 2
MaxPrice == 2
MaxQty == 2

----------------------------------------------------------------------------
(* JavaScript values: a string field is a string or undefined; a number    *)
(* field is a number, undefined, or NaN (what parseFloat gives for a       *)
(* missing field).                                                         *)

undefined == "<undefined>"

Num(n) == [tag |-> "num", v |-> n]
UndefinedNum == [tag |-> "undefined", v |-> 0]
NaN == [tag |-> "NaN", v |-> 0]

\* !s for a string-or-undefined value
FalsyStr(s) == s = undefined \/ s = ""
\* !x for a number-or-undefined value: undefined, NaN and 0 are falsy
FalsyNum(x) == x.tag # "num" \/ x.v = 0
\* a <= b, a < b: false as soon as one side is undefined or NaN
LeqNum(a, b) == a.tag = "num" /\ b.tag = "num" /\ a.v <= b.v
LtNum(a, b) == a.tag = "num" /\ b.tag = "num" /\ a.v < b.v
MulNum(a, b) == IF a.tag = "num" /\ b.tag = "num" THEN Num(a.v * b.v) ELSE NaN
\* `${x}` for a number
NumToString(x) == IF x.tag = "num" THEN ToString(x.v) ELSE x.tag
\* parseFloat of a wire field
parseFloat(x) == IF x.tag = "num" THEN x ELSE NaN
\* x || d for strings
OrStr(s, d) == IF FalsyStr(s) THEN d ELSE s

\* String.prototype.toLowerCase on the strings of the model
toLowerCase(s) ==
    CASE s = "BUY" -> "buy"
      [] s = "SELL" -> "sell"
      [] s = "MARKET" -> "market"
      [] s = "LIMIT" -> "limit"
      [] s = "NEW" -> "new"
      [] s = "FILLED" -> "filled"
      [] s = "CANCELED" -> "canceled"
      [] OTHER -> s

\* String.prototype.toUpperCase on the strings of the model
toUpperCase(s) ==
    CASE s = "gtc" -> "GTC"
      [] s = "ioc" -> "IOC"
      [] s = "fok" -> "FOK"
      [] OTHER -> s

\* symbol.split('-')
split(symbol) ==
    CASE symbol = "BTC-USDT" -> <<"BTC", "USDT">>
      [] symbol = "ETH-USDT" -> <<"ETH", "USDT">>
      [] OTHER -> <<symbol>>

----------------------------------------------------------------------------
(* Completions of a call: it returns a value or throws one. *)

Return(v) == [type |-> "return", value |-> v]
Throw(e) == [type |-> "throw", value |-> e]

----------------------------------------------------------------------------
(* Error taxonomy. *)

ExchangeError(message, code, httpStatus) ==
    [kind |-> "ExchangeError", isError |-> TRUE,
     message |-> message, code |-> code, httpStatus |-> httpStatus]

AuthenticationError(message) ==
    [ExchangeError(message, "AUTH_ERROR", Num(401)) EXCEPT !.kind = "AuthenticationError"]

InsufficientFundsError(message) ==
    [ExchangeError(message, "INSUFFICIENT_FUNDS", Num(400)) EXCEPT !.kind = "InsufficientFundsError"]

InvalidOrderError(message) ==
    [ExchangeError(message, "INVALID_ORDER", Num(400)) EXCEPT !.kind = "InvalidOrderError"]

TaxonomyKinds ==
    {"ExchangeError", "AuthenticationError", "InvalidOrderError", "InsufficientFundsError"}

\* error instanceof ExchangeError (every taxonomy kind extends it)
IsTaxonomy(e) == e.kind \in TaxonomyKinds

\* A failure outside the taxonomy: an Error object (a TypeError of a
\* transform, a system error carrying a code) or a thrown non-Error value.
RawError(message, code) ==
    [kind |-> "Error", isError |-> TRUE,
     message |-> message, code |-> code, httpStatus |-> UndefinedNum]

NonError(message, code) ==
    [kind |-> "NonError", isError |-> FALSE,
     message |-> message, code |-> code, httpStatus |-> UndefinedNum]

----------------------------------------------------------------------------
(* BaseExchange.handleError: the completion of handleError(error, default). *)

\* handleError that takes NOT_FOUND for any other code
handleErrorNotFoundGeneric(error, defaultMessage) ==
    IF error.isError
    THEN IF IsTaxonomy(error)
         THEN Throw(error)
         ELSE IF error.code # undefined
              THEN CASE error.code = "AUTH_ERROR" ->
                          Throw(AuthenticationError(OrStr(error.message, "Authentication failed")))
                     [] error.code = "INVALID_ORDER" ->
                          Throw(InvalidOrderError(OrStr(error.message, "Invalid order parameters")))
                     [] error.code = "INSUFFICIENT_FUNDS" ->
                          Throw(InsufficientFundsError(OrStr(error.message, "Insufficient funds")))
                     [] OTHER ->
                          Throw(ExchangeError(OrStr(error.message, defaultMessage),
                                              error.code, UndefinedNum))
              ELSE Throw(ExchangeError(OrStr(error.message, defaultMessage),
                                       undefined, UndefinedNum))
    ELSE Throw(ExchangeError(defaultMessage, undefined, UndefinedNum))

handleError(error, defaultMessage) ==
    IF error.isError
    THEN IF IsTaxonomy(error)
         THEN Throw(error)
         ELSE IF error.code # undefined
              THEN CASE error.code = "AUTH_ERROR" ->
                          Throw(AuthenticationError(OrStr(error.message, "Authentication failed")))
                     [] error.code = "INVALID_ORDER" ->
                          Throw(InvalidOrderError(OrStr(error.message, "Invalid order parameters")))
                     [] error.code = "INSUFFICIENT_FUNDS" ->
                          Throw(InsufficientFundsError(OrStr(error.message, "Insufficient funds")))
                     [] error.code = "NOT_FOUND" ->
                          Throw(InvalidOrderError(OrStr(error.message, "Order not found")))
                     [] OTHER ->
                          Throw(ExchangeError(OrStr(error.message, defaultMessage),
                                              error.code, UndefinedNum))
              ELSE Throw(ExchangeError(OrStr(error.message, defaultMessage),
                                       undefined, UndefinedNum))
    ELSE Throw(ExchangeError(defaultMessage, undefined, UndefinedNum))

----------------------------------------------------------------------------
(* Wire values.  A response body (data) carries the fields the transport   *)
(* and the transforms read: error, code, and the payload of the endpoint   *)
(* (an order, a balance list, a ticker); a field the body lacks is         *)
(* undefined.                                                              *)

Url(route, arg) == [route |-> route, arg |-> arg]

\* A transport that takes no url for a url of an order
IncludesOrdersNever(url) == FALSE

\* url.includes('/orders/')
IncludesOrders(url) == url.route \in {"/orders/", "/orders/history"}

NoOrder ==
    [orderId |-> undefined, symbol |-> undefined, side |-> undefined,
     type |-> undefined, quantity |-> UndefinedNum, price |-> UndefinedNum,
     status |-> undefined, filledQuantity |-> UndefinedNum,
     remainingQuantity |-> UndefinedNum, avgPrice |-> UndefinedNum,
     timeInForce |-> undefined]

NoBalances == [present |-> FALSE, list |-> <<>>]

Data(error, code, order, balances, lastPrice) ==
    [error |-> error, code |-> code, order |-> order,
     balances |-> balances, lastPrice |-> lastPrice]

EmptyData == Data(undefined, undefined, NoOrder, NoBalances, UndefinedNum)
ErrorData(error, code) == Data(error, code, NoOrder, NoBalances, UndefinedNum)

\* What fetch gives: it throws (thrown is the value thrown), or it returns a
\* response with a status, whose body parses as JSON (json) into data or not.
Response(status, data) ==
    [throws |-> FALSE, thrown |-> RawError("", undefined),
     status |-> status, json |-> TRUE, data |-> data]

FetchThrows(e) ==
    [throws |-> TRUE, thrown |-> e, status |-> 0, json |-> FALSE, data |-> EmptyData]

Unparsable(status) == [Response(status, EmptyData) EXCEPT !.json = FALSE]

\* response.ok
Ok(response) == response.status >= 200 /\ response.status <= 299

----------------------------------------------------------------------------
(* The transport helper makeRequest, from the response of fetch on.        *)

makeRequest(url, response) ==
    IF response.throws
    THEN IF IsTaxonomy(response.thrown)
         THEN Throw(response.thrown)
         ELSE Throw(ExchangeError(
                  IF response.thrown.isError THEN response.thrown.message
                                             ELSE "Network error",
                  "NETWORK_ERROR", Num(500)))
    ELSE IF ~Ok(response) /\ response.status = 0
    THEN Throw(ExchangeError("Network error: Unable to reach server",
                             "NETWORK_ERROR", UndefinedNum))
    ELSE IF ~response.json
    THEN Throw(ExchangeError("Invalid response format", "INVALID_RESPONSE", UndefinedNum))
    ELSE LET data == response.data IN
    IF response.status = 404
    THEN IF IncludesOrders(url)
         THEN Throw(InvalidOrderError(OrStr(data.error, "Order not found")))
         ELSE Throw(ExchangeError(OrStr(data.error, "Resource not found"),
                                  "NOT_FOUND", UndefinedNum))
    ELSE IF response.status = 401 \/ data.code = "AUTH_ERROR"
    THEN Throw(AuthenticationError(OrStr(data.error, "Authentication failed")))
    ELSE IF ~Ok(response) \/ ~FalsyStr(data.error)
    THEN CASE data.code = "INVALID_ORDER" ->
                 Throw(InvalidOrderError(OrStr(data.error, "Invalid order parameters")))
           [] data.code = "INSUFFICIENT_FUNDS" ->
                 Throw(InsufficientFundsError(
                     OrStr(data.error, "Insufficient funds for the operation")))
           [] data.code = "INVALID_SYMBOL" ->
                 Throw(InvalidOrderError(OrStr(data.error, "Invalid trading symbol")))
           [] data.code = "NOT_FOUND" ->
                 IF IncludesOrders(url)
                 THEN Throw(InvalidOrderError(OrStr(data.error, "Order not found")))
                 ELSE Throw(ExchangeError(OrStr(data.error, "Resource not found"),
                                          "NOT_FOUND", UndefinedNum))
           [] OTHER ->
                 Throw(ExchangeError(
                     OrStr(data.error, "HTTP error! status: " \o ToString(response.status)),
                     OrStr(data.code, "UNKNOWN_ERROR"), Num(response.status)))
    ELSE Return(data)

----------------------------------------------------------------------------
(* The exchange behind the wire: it keeps the orders, the balances and the *)
(* last price, and answers each request as the test double of the          *)
(* repository does, except that it remembers the orders it accepted.       *)

FundsLimit == 10
DefaultPrice == 50000

OrderParams(symbol, side, type, quantity, price, timeInForce) ==
    [symbol |-> symbol, side |-> side, type |-> type,
     quantity |-> quantity, price |-> price, timeInForce |-> timeInForce]

NoParams ==
    OrderParams(undefined, undefined, undefined, UndefinedNum, UndefinedNum, undefined)

\* `test-order-...`: the id of the n-th order the exchange accepted
OrderIdOf(n) == "order-" \o ToString(n)

WireBalance(asset, available) ==
    [asset |-> asset, available |-> available, locked |-> Num(0), total |-> available]

\* The positions of the orders with this id
Lookup(orders, orderId) == {i \in 1..Len(orders) : orders[i].orderId = orderId}

\* The order the exchange opens for an accepted POST /orders
AcceptedOrder(orderId, body) ==
    [orderId |-> orderId, symbol |-> body.symbol, side |-> body.side,
     type |-> body.type, quantity |-> body.quantity,
     price |-> IF body.type = "market" THEN UndefinedNum
               ELSE IF FalsyNum(body.price) THEN Num(DefaultPrice) ELSE body.price,
     status |-> "new", filledQuantity |-> Num(0),
     remainingQuantity |-> body.quantity, avgPrice |-> Num(0),
     timeInForce |-> OrStr(body.timeInForce, "GTC")]

\* The exchange's check of a POST or PUT body
RejectsFunds(body) == LeqNum(Num(FundsLimit), body.quantity)
RejectsOrder(body) ==
    \/ FalsyStr(body.symbol) \/ FalsyStr(body.side) \/ FalsyStr(body.type)
    \/ FalsyNum(body.quantity) \/ LeqNum(body.quantity, Num(0))
    \/ (body.type = "limit" /\ (FalsyNum(body.price) \/ LeqNum(body.price, Num(0))))

OrderData(order) == Data(undefined, undefined, order, NoBalances, UndefinedNum)

NotFoundResponse == Response(404, ErrorData("Order not found", "NOT_FOUND"))

\* Serve(ex, method, url, body): the exchange's answer and its next state
Serve(ex, method, url, body) ==
    LET same(r) == [response |-> r, ex |-> ex]
        at == Lookup(ex.orders, url.arg)
        i == CHOOSE j \in at : TRUE
    IN
    CASE url.route = "/orders" /\ method = "POST" ->
            IF RejectsFunds(body)
            THEN same(Response(400, ErrorData("Insufficient funds", "INSUFFICIENT_FUNDS")))
            ELSE IF RejectsOrder(body)
            THEN same(Response(400, ErrorData("Invalid order parameters", "INVALID_ORDER")))
            ELSE LET o == AcceptedOrder(OrderIdOf(Len(ex.orders) + 1), body)
                 IN [response |-> Response(200, OrderData(o)),
                     ex |-> [ex EXCEPT !.orders = Append(@, o)]]
      [] url.route = "/orders/" /\ method = "PUT" ->
            IF RejectsFunds(body)
            THEN same(Response(400, ErrorData("Insufficient funds", "INSUFFICIENT_FUNDS")))
            ELSE IF RejectsOrder(body)
            THEN same(Response(400, ErrorData("Invalid order parameters", "INVALID_ORDER")))
            ELSE IF at = {} THEN same(NotFoundResponse)
            ELSE LET o == AcceptedOrder(url.arg, body)
                 IN [response |-> Response(200, OrderData(o)),
                     ex |-> [ex EXCEPT !.orders[i] = o]]
      [] url.route = "/orders/" /\ method = "GET" ->
            IF at = {} THEN same(NotFoundResponse)
            ELSE same(Response(200, OrderData(ex.orders[i])))
      [] url.route = "/orders/" /\ method = "DELETE" ->
            IF at = {} THEN same(NotFoundResponse)
            ELSE [response |-> Response(200, EmptyData),
                  ex |-> [ex EXCEPT !.orders[i].status = "canceled"]]
      [] url.route = "/balances" ->
            same(Response(200, Data(undefined, undefined, NoOrder,
                                    [present |-> TRUE, list |-> ex.balances],
                                    UndefinedNum)))
      [] url.route = "/ticker/" ->
            IF url.arg = "BTC-USDT"
            THEN same(Response(200, Data(undefined, undefined, NoOrder, NoBalances,
                                         Num(ex.lastPrice))))
            ELSE same(Response(400, ErrorData("Invalid symbol", "INVALID_SYMBOL")))
      [] OTHER -> same(Response(200, EmptyData))

----------------------------------------------------------------------------
(* Faults of the wire.  Any request may meet a fault instead of getting    *)
(* the exchange's answer.                                                  *)

FaultKinds ==
    {"throws", "unparsable", "status404", "status401", "status500",
     "insufficientFunds", "emptyBody", "noOrderId"}

\* The faults under which the exchange still carries the request out
Processed == {"emptyBody", "noOrderId"}

FaultResponse(kind, served) ==
    CASE kind = "throws" -> FetchThrows(RawError("fetch failed", undefined))
      [] kind = "unparsable" -> Unparsable(200)
      [] kind = "status404" -> Response(404, EmptyData)
      [] kind = "status401" -> Response(401, ErrorData("Authentication failed", "AUTH_ERROR"))
      [] kind = "status500" -> Response(500, EmptyData)
      [] kind = "insufficientFunds" ->
            Response(400, ErrorData("Insufficient funds", "INSUFFICIENT_FUNDS"))
      [] kind = "emptyBody" -> Response(200, EmptyData)
      [] kind = "noOrderId" ->
            IF served.status = 200
            THEN [served EXCEPT !.data.order.orderId = undefined]
            ELSE served

\* The context a call runs in: the exchange, the faults the wire may show,
\* the failures the methods of the adapter may raise themselves (the core
\* declares them abstract: an adapter other than Hyperliquid may throw what
\* it likes), and the events of the call so far.
AdapterContext(ex, faults, raises) ==
    [ex |-> ex, faults |-> faults, raises |-> raises, trace |-> <<>>]

\* The context of a call on the Hyperliquid adapter
Context(ex, faults) == AdapterContext(ex, faults, {})

\* What an event keeps of a response: whether fetch threw, the status,
\* whether the body parsed, the code of the body, and the fault the request
\* met ("none": the exchange's own answer)
Reply(response, fault) ==
    [throws |-> response.throws, status |-> response.status,
     json |-> response.json, code |-> response.data.code, fault |-> fault]

\* An event of a call: the entry of a method (ev = "call") or a request sent
\* (ev = "request", with the response it got)
Event(ev, name, url, body, reply) ==
    [ev |-> ev, name |-> name, url |-> url, body |-> body, reply |-> reply]

\* The entry of a method of the core or the adapter
Called(x, name, arg, body) ==
    [x EXCEPT !.trace = Append(@, Event("call", name, Url("", arg), body,
                                        Reply(Response(0, EmptyData), "none")))]

\* The context after a request that got this response (under this fault)
\* and left the exchange as ex
Sent(x, method, url, body, response, fault, ex) ==
    [x EXCEPT !.ex = ex,
              !.trace = Append(@, Event("request", method, url, body,
                                        Reply(response, fault)))]

\* A fetch that sends the request again when the first attempt threw
FetchRetrying(x, method, url, body) ==
    {[response |-> s.response,
      x |-> Sent(x, method, url, body, s.response, "none", s.ex)] :
        s \in {Serve(x.ex, method, url, body)}}
    \cup
    {[response |-> s.response,
      x |-> Sent(Sent(x, method, url, body,
                      FetchThrows(RawError("fetch failed", undefined)), "throws", x.ex),
                 method, url, body, s.response, "none", s.ex)] :
        s \in {Serve(x.ex, method, url, body)}}

\* fetch(url, {method, headers, body}): every response the request can get,
\* each with the context after it
Fetch(x, method, url, body) ==
    {[response |-> s.response,
      x |-> Sent(x, method, url, body, s.response, "none", s.ex)] :
        s \in {Serve(x.ex, method, url, body)}}
    \cup
    {[response |-> FaultResponse(k, s.response),
      x |-> Sent(x, method, url, body, FaultResponse(k, s.response), k,
                 IF k \in Processed THEN s.ex ELSE x.ex)] :
        k \in x.faults, s \in {Serve(x.ex, method, url, body)}}

\* The outcome of a step of a call: its completion c and the context x after it
Outcome(c, x) == [c |-> c, x |-> x]

\* The context after the method of the adapter raised the failure e itself
Raised(x, name, e) ==
    [x EXCEPT !.trace = Append(@, Event("raise", name, Url("", ""), NoParams, e))]

\* The context after a method completed as c
Completed(x, name, c) ==
    [x EXCEPT !.trace = Append(@, Event("completed", name, Url("", ""), NoParams, c))]

\* The outcomes of a method of the adapter that raises a failure of its own
Raises(x, name, arg) ==
    {Outcome(Throw(e), Raised(Called(x, name, arg, NoParams), name, e)) :
        e \in x.raises}

----------------------------------------------------------------------------
(* Hyperliquid: the transforms of the wire responses.                      *)

TypeError(reading) ==
    RawError("Cannot read properties of undefined (reading '" \o reading \o "')", undefined)

\* transformOrder(order): reading side, type or status of a body that lacks
\* it throws a TypeError
transformOrder(order) ==
    IF order.side = undefined \/ order.type = undefined \/ order.status = undefined
    THEN Throw(TypeError("toLowerCase"))
    ELSE Return(
        [orderId |-> order.orderId,
         symbol |-> order.symbol,
         side |-> toLowerCase(order.side),
         type |-> toLowerCase(order.type),
         quantity |-> parseFloat(order.quantity),
         price |-> IF toLowerCase(order.type) = "market" THEN UndefinedNum
                   ELSE IF FalsyNum(order.price) THEN Num(0) ELSE parseFloat(order.price),
         status |-> toLowerCase(order.status),
         filledQuantity |-> parseFloat(order.filledQuantity),
         remainingQuantity |-> parseFloat(order.remainingQuantity),
         avgPrice |-> IF FalsyNum(order.avgPrice) THEN Num(0) ELSE parseFloat(order.avgPrice),
         timeInForce |-> toUpperCase(OrStr(order.timeInForce, "GTC"))])

transformBalance(balance) ==
    [asset |-> balance.asset,
     free |-> parseFloat(balance.available),
     locked |-> parseFloat(balance.locked),
     total |-> parseFloat(balance.total)]

transformTicker(ticker) == [lastPrice |-> parseFloat(ticker.lastPrice)]

\* `${s}` for a string-or-undefined value
StrOf(s) == IF s = undefined THEN "undefined" ELSE s

----------------------------------------------------------------------------
(* Hyperliquid: the adapter's requests.  Each takes the context x and      *)
(* gives the set of its Outcomes.  The completion of a method is given as  *)
(* an operator of the completion m of makeRequest.                         *)

\* try { return transformOrder(await makeRequest(..)) } catch { handleError }
OrderCompletion(m, defaultMessage) ==
    IF m.type = "throw" THEN handleError(m.value, defaultMessage)
    ELSE IF transformOrder(m.value.order).type = "throw"
    THEN handleError(transformOrder(m.value.order).value, defaultMessage)
    ELSE transformOrder(m.value.order)

getTickerCompletion(m) ==
    IF m.type = "throw" THEN handleError(m.value, "Failed to fetch ticker")
    ELSE Return(transformTicker(m.value))

getTicker(x, symbol) ==
    {Outcome(getTickerCompletion(makeRequest(Url("/ticker/", symbol), f.response)), f.x) :
        f \in Fetch(Called(x, "getTicker", symbol, NoParams),
                    "GET", Url("/ticker/", symbol), NoParams)}
    \cup Raises(x, "getTicker", symbol)

getBalancesCompletion(m) ==
    IF m.type = "throw" THEN handleError(m.value, "Failed to fetch balances")
    ELSE IF ~m.value.balances.present
    THEN handleError(TypeError("map"), "Failed to fetch balances")
    ELSE Return([i \in 1..Len(m.value.balances.list) |->
                    transformBalance(m.value.balances.list[i])])

\* The request of getBalances and what getBalances makes of the answer
FetchBalances(x) ==
    {Outcome(getBalancesCompletion(makeRequest(Url("/balances", ""), f.response)), f.x) :
        f \in Fetch(Called(x, "getBalances", "", NoParams),
                    "GET", Url("/balances", ""), NoParams)}
    \cup Raises(x, "getBalances", "")

\* getBalances: the trace keeps how it completed
getBalances(x) ==
    {Outcome(o.c, Completed(o.x, "getBalances", o.c)) : o \in FetchBalances(x)}

\* The request of getOrder and what getOrder makes of the answer
FetchOrder(x, symbol, orderId) ==
    {Outcome(OrderCompletion(makeRequest(Url("/orders/", orderId), f.response),
                             "Failed to fetch order"), f.x) :
        f \in Fetch(Called(x, "getOrder", orderId, NoParams),
                    "GET", Url("/orders/", orderId), NoParams)}
    \cup Raises(x, "getOrder", orderId)

\* getOrder: the trace keeps how it completed
getOrder(x, symbol, orderId) ==
    {Outcome(o.c, Completed(o.x, "getOrder", o.c)) :
        o \in FetchOrder(x, symbol, orderId)}

cancelOrderCompletion(m) ==
    IF m.type = "throw" THEN handleError(m.value, "Failed to cancel order")
    ELSE Return(TRUE)

\* The request of cancelOrder and what cancelOrder makes of the answer
DeleteOrder(x, symbol, orderId) ==
    {Outcome(cancelOrderCompletion(makeRequest(Url("/orders/", orderId), f.response)), f.x) :
        f \in Fetch(Called(x, "cancelOrder", orderId, NoParams),
                    "DELETE", Url("/orders/", orderId), NoParams)}
    \cup Raises(x, "cancelOrder", orderId)

\* cancelOrder: the trace keeps how it completed
cancelOrder(x, symbol, orderId) ==
    {Outcome(o.c, Completed(o.x, "cancelOrder", o.c)) :
        o \in DeleteOrder(x, symbol, orderId)}

----------------------------------------------------------------------------
(* BaseExchange: getCurrentPrice, getBalance, validateOrder.               *)

getCurrentPriceCompletion(t, symbol) ==
    IF t.type = "throw"
    THEN handleError(t.value, "Failed to get current price for " \o StrOf(symbol))
    ELSE Return(t.value.lastPrice)

getCurrentPrice(x, symbol) ==
    {Outcome(getCurrentPriceCompletion(t.c, symbol), t.x) :
        t \in getTicker(Called(x, "getCurrentPrice", symbol, NoParams), symbol)}

\* balances.find(b => b.asset === asset): the positions that match
\* A find that takes the first balance whatever its asset
MatchingAny(balances, asset) == {i \in 1..Len(balances) : TRUE}

\* The positions of the balances b with b.asset === asset
Matching(balances, asset) == {i \in 1..Len(balances) : balances[i].asset = asset}

\* getBalance that lets the failure of getBalances through as it came
getBalanceCompletionUnwrapped(b, asset) ==
    IF b.type = "throw"
    THEN Throw(b.value)
    ELSE IF Matching(b.value, asset) = {}
    THEN handleError(InvalidOrderError("Balance not found for asset " \o StrOf(asset)),
                     "Failed to get balance for " \o StrOf(asset))
    ELSE Return(b.value[CHOOSE i \in Matching(b.value, asset) :
                            \A j \in Matching(b.value, asset) : i <= j])

getBalanceCompletion(b, asset) ==
    IF b.type = "throw"
    THEN handleError(b.value, "Failed to get balance for " \o StrOf(asset))
    ELSE IF Matching(b.value, asset) = {}
    THEN handleError(InvalidOrderError("Balance not found for asset " \o StrOf(asset)),
                     "Failed to get balance for " \o StrOf(asset))
    ELSE Return(b.value[CHOOSE i \in Matching(b.value, asset) :
                            \A j \in Matching(b.value, asset) : i <= j])

\* A getBalance that answers from a balance it returned earlier
getBalanceCached(x, asset) ==
    LET hits == {i \in 1..Len(x.trace) :
                    /\ x.trace[i].ev = "end"
                    /\ x.trace[i].name = "getBalance"
                    /\ x.trace[i].url.arg = asset
                    /\ x.trace[i].reply.type = "return"}
    IN IF hits # {}
       THEN {Outcome(x.trace[CHOOSE i \in hits : TRUE].reply,
                     Called(x, "getBalance", asset, NoParams))}
       ELSE {Outcome(getBalanceCompletion(b.c, asset), b.x) :
                b \in getBalances(Called(x, "getBalance", asset, NoParams))}

getBalance(x, asset) ==
    {Outcome(getBalanceCompletion(b.c, asset), b.x) :
        b \in getBalances(Called(x, "getBalance", asset, NoParams))}

\* The checks with the side vocabulary checked before the quantity
StructuralChecksSideFirst(params) ==
    IF FalsyStr(params.symbol) THEN Throw(InvalidOrderError("Symbol is required"))
    ELSE IF FalsyStr(params.side) THEN Throw(InvalidOrderError("Side is required"))
    ELSE IF FalsyStr(params.type) THEN Throw(InvalidOrderError("Type is required"))
    ELSE IF toLowerCase(params.side) \notin {"buy", "sell"}
    THEN Throw(InvalidOrderError("Invalid side"))
    ELSE IF FalsyNum(params.quantity) \/ LeqNum(params.quantity, Num(0))
    THEN Throw(InvalidOrderError("Quantity must be greater than 0"))
    ELSE IF toLowerCase(params.type) \notin {"market", "limit"}
    THEN Throw(InvalidOrderError("Invalid type"))
    ELSE IF /\ toLowerCase(params.type) = "limit"
            /\ (FalsyNum(params.price) \/ LeqNum(params.price, Num(0)))
    THEN Throw(InvalidOrderError(
             "Price is required for limit orders and must be greater than 0"))
    ELSE Return("void")

\* The checks with a quantity check that lets a negative quantity through
StructuralChecksNegativeQuantity(params) ==
    IF FalsyStr(params.symbol) THEN Throw(InvalidOrderError("Symbol is required"))
    ELSE IF FalsyStr(params.side) THEN Throw(InvalidOrderError("Side is required"))
    ELSE IF FalsyStr(params.type) THEN Throw(InvalidOrderError("Type is required"))
    ELSE IF FalsyNum(params.quantity)
    THEN Throw(InvalidOrderError("Quantity must be greater than 0"))
    ELSE IF toLowerCase(params.side) \notin {"buy", "sell"}
    THEN Throw(InvalidOrderError("Invalid side"))
    ELSE IF toLowerCase(params.type) \notin {"market", "limit"}
    THEN Throw(InvalidOrderError("Invalid type"))
    ELSE IF /\ toLowerCase(params.type) = "limit"
            /\ (FalsyNum(params.price) \/ LeqNum(params.price, Num(0)))
    THEN Throw(InvalidOrderError(
             "Price is required for limit orders and must be greater than 0"))
    ELSE Return("void")

\* The checks with a limit price check that lets a negative price through
StructuralChecksNegativePrice(params) ==
    IF FalsyStr(params.symbol) THEN Throw(InvalidOrderError("Symbol is required"))
    ELSE IF FalsyStr(params.side) THEN Throw(InvalidOrderError("Side is required"))
    ELSE IF FalsyStr(params.type) THEN Throw(InvalidOrderError("Type is required"))
    ELSE IF FalsyNum(params.quantity) \/ LeqNum(params.quantity, Num(0))
    THEN Throw(InvalidOrderError("Quantity must be greater than 0"))
    ELSE IF toLowerCase(params.side) \notin {"buy", "sell"}
    THEN Throw(InvalidOrderError("Invalid side"))
    ELSE IF toLowerCase(params.type) \notin {"market", "limit"}
    THEN Throw(InvalidOrderError("Invalid type"))
    ELSE IF toLowerCase(params.type) = "limit" /\ FalsyNum(params.price)
    THEN Throw(InvalidOrderError(
             "Price is required for limit orders and must be greater than 0"))
    ELSE Return("void")

\* The basic field validations, the side and type checks and the limit
\* price check of validateOrder: the completion they end with
StructuralChecks(params) ==
    IF FalsyStr(params.symbol) THEN Throw(InvalidOrderError("Symbol is required"))
    ELSE IF FalsyStr(params.side) THEN Throw(InvalidOrderError("Side is required"))
    ELSE IF FalsyStr(params.type) THEN Throw(InvalidOrderError("Type is required"))
    ELSE IF FalsyNum(params.quantity) \/ LeqNum(params.quantity, Num(0))
    THEN Throw(InvalidOrderError("Quantity must be greater than 0"))
    ELSE IF toLowerCase(params.side) \notin {"buy", "sell"}
    THEN Throw(InvalidOrderError("Invalid side"))
    ELSE IF toLowerCase(params.type) \notin {"market", "limit"}
    THEN Throw(InvalidOrderError("Invalid type"))
    ELSE IF /\ toLowerCase(params.type) = "limit"
            /\ (FalsyNum(params.price) \/ LeqNum(params.price, Num(0)))
    THEN Throw(InvalidOrderError(
             "Price is required for limit orders and must be greater than 0"))
    ELSE Return("void")

\* The catch clause of the balance check
BalanceCheckCatch(error) ==
    IF error.kind = "InsufficientFundsError"
    THEN Throw(error)
    ELSE handleError(error, "Failed to validate balance")

\* const [baseAsset, quoteAsset] = params.symbol.split('-')
BaseAsset(params) == split(params.symbol)[1]
QuoteAsset(params) ==
    IF Len(split(params.symbol)) >= 2 THEN split(params.symbol)[2] ELSE undefined

\* The asset whose balance the balance step reads
CheckedAsset(params) ==
    IF params.side = "buy" THEN QuoteAsset(params) ELSE BaseAsset(params)

\* Whether the balance step asks getCurrentPrice for the price
UsesCurrentPrice(params) == params.type = "market" \/ FalsyNum(params.price)

RequiredAmount(params, currentPrice) ==
    IF params.side = "buy" THEN MulNum(params.quantity, currentPrice)
    ELSE params.quantity

\* The comparison that ends the balance check
FundsCompletion(params, balance, currentPrice) ==
    IF LtNum(balance.free, RequiredAmount(params, currentPrice))
    THEN BalanceCheckCatch(InsufficientFundsError(
             "Insufficient " \o StrOf(CheckedAsset(params)) \o " balance. Required: "
             \o NumToString(RequiredAmount(params, currentPrice)) \o ", Available: "
             \o NumToString(balance.free)))
    ELSE Return("void")

\* The price the balance step compares with: the current price or params.price
CurrentPrice(x, params) ==
    IF UsesCurrentPrice(params)
    THEN getCurrentPrice(x, params.symbol)
    ELSE {Outcome(Return(params.price), x)}

\* The balance check of validateOrder
BalanceCheck(x, params) ==
    UNION {
        IF b.c.type = "throw"
        THEN {Outcome(BalanceCheckCatch(b.c.value), b.x)}
        ELSE {IF p.c.type = "throw"
              THEN Outcome(BalanceCheckCatch(p.c.value), p.x)
              ELSE Outcome(FundsCompletion(params, b.c.value, p.c.value), p.x) :
                 p \in CurrentPrice(b.x, params)} :
        b \in getBalance(x, CheckedAsset(params))}

\* The structural checks, then the balance check unless it is skipped
ValidateSteps(x, params, skipBalanceCheck) ==
    IF StructuralChecks(params).type = "throw"
    THEN {Outcome(StructuralChecks(params), x)}
    ELSE IF ~skipBalanceCheck THEN BalanceCheck(x, params)
    ELSE {Outcome(Return("void"), x)}

\* validateOrder: the trace keeps how it completed
validateOrder(x, params, skipBalanceCheck) ==
    {Outcome(o.c, Completed(o.x, "validateOrder", o.c)) :
        o \in ValidateSteps(x, params, skipBalanceCheck)}

----------------------------------------------------------------------------
(* Hyperliquid: createOrder and modifyOrder.                               *)

\* createOrder that submits the order whatever validateOrder said
createOrderUnvalidated(x, params) ==
    UNION {
        {Outcome(OrderCompletion(makeRequest(Url("/orders", ""), f.response),
                                 "Failed to create order"), f.x) :
            f \in Fetch(v.x, "POST", Url("/orders", ""), params)} :
        v \in validateOrder(Called(x, "createOrder", "", params), params, FALSE)}
    \cup Raises(x, "createOrder", "")

\* A submission that validates the order once more before it sends it
SubmitOrderRevalidating(x, params) ==
    UNION {
        IF v.c.type = "throw"
        THEN {v}
        ELSE {Outcome(OrderCompletion(makeRequest(Url("/orders", ""), f.response),
                                      "Failed to create order"), f.x) :
                 f \in Fetch(v.x, "POST", Url("/orders", ""), params)} :
        v \in validateOrder(x, params, FALSE)}

\* createOrder once validateOrder returned: the POST and what createOrder
\* makes of the answer
SubmitOrder(x, params) ==
    {Outcome(OrderCompletion(makeRequest(Url("/orders", ""), f.response),
                             "Failed to create order"), f.x) :
        f \in Fetch(x, "POST", Url("/orders", ""), params)}

createOrder(x, params) ==
    UNION {
        IF v.c.type = "throw"
        THEN {v}
        ELSE SubmitOrder(v.x, params) :
        v \in validateOrder(Called(x, "createOrder", "", params), params, FALSE)}
    \cup Raises(x, "createOrder", "")

\* {...existingOrder, ...params}: given names the fields that the caller's
\* partial params carry
Overlay(existingOrder, params, given) ==
    [f \in DOMAIN existingOrder |->
        IF f \in given THEN params[f] ELSE existingOrder[f]]

\* The overlay without the three fields put back
UpdatedParamsOverlaid(existingOrder, params, given) ==
    Overlay(existingOrder, params, given)

\* {...existingOrder, ...params, symbol: existingOrder.symbol,
\*  side: existingOrder.side, type: existingOrder.type}
UpdatedParams(existingOrder, params, given) ==
    [Overlay(existingOrder, params, given) EXCEPT
        !.symbol = existingOrder.symbol,
        !.side = existingOrder.side,
        !.type = existingOrder.type]

\* modifyOrder once getOrder returned existingOrder
ModifyExisting(x, orderId, updatedParams) ==
    UNION {
        IF v.c.type = "throw"
        THEN {Outcome(handleError(v.c.value, "Failed to modify order"), v.x)}
        ELSE {Outcome(OrderCompletion(makeRequest(Url("/orders/", orderId), f.response),
                                      "Failed to modify order"), f.x) :
                 f \in Fetch(v.x, "PUT", Url("/orders/", orderId), updatedParams)} :
        v \in validateOrder(x, updatedParams, TRUE)}

modifyOrder(x, symbol, orderId, params, given) ==
    UNION {
        IF o.c.type = "throw"
        THEN {Outcome(handleError(o.c.value, "Failed to modify order"), o.x)}
        ELSE ModifyExisting(o.x, orderId, UpdatedParams(o.c.value, params, given)) :
        o \in getOrder(Called(x, "modifyOrder", orderId, params), symbol, orderId)}

----------------------------------------------------------------------------
(* BaseExchange: closeOrderMarket and closeOrderLimit.                     *)

\* The catch clause of the two close operations
CloseCatch(error, defaultMessage) ==
    IF error.kind = "InvalidOrderError"
    THEN Throw(error)
    ELSE handleError(error, defaultMessage)

\* order.side === 'buy' ? 'sell' : 'buy'
ReverseSide(side) == IF side = "buy" THEN "sell" ELSE "buy"

\* Closing the whole quantity of the order, filled or not
MarketCloseParamsWholeQuantity(order) ==
    OrderParams(order.symbol, ReverseSide(order.side), "market",
                order.quantity, UndefinedNum, undefined)

MarketCloseParams(order) ==
    OrderParams(order.symbol, ReverseSide(order.side), "market",
                order.remainingQuantity, UndefinedNum, undefined)

\* Closing on the side of the order
LimitCloseParamsSameSide(order, price) ==
    OrderParams(order.symbol, order.side, "limit",
                order.remainingQuantity, price, "GTC")

LimitCloseParams(order, price) ==
    OrderParams(order.symbol, ReverseSide(order.side), "limit",
                order.remainingQuantity, price, "GTC")

\* A close that goes on to createOrder whether cancelOrder failed or not
CancelAndCreateRegardless(x, symbol, orderId, closeParams, defaultMessage) ==
    UNION {createOrder(c.x, closeParams) : c \in cancelOrder(x, symbol, orderId)}

\* A close that submits the order again on its own side when the
\* createOrder of the closing order failed
CancelAndCreateRestoring(x, symbol, orderId, closeParams, defaultMessage) ==
    UNION {
        IF c.c.type = "throw"
        THEN {Outcome(CloseCatch(c.c.value, defaultMessage), c.x)}
        ELSE UNION {
                IF k.c.type = "return"
                THEN {k}
                ELSE {Outcome(k.c, f.x) :
                         f \in Fetch(k.x, "POST", Url("/orders", ""),
                                     [closeParams EXCEPT
                                         !.side = ReverseSide(closeParams.side)])} :
                k \in createOrder(c.x, closeParams)} :
        c \in cancelOrder(x, symbol, orderId)}

\* The close operations once getOrder returned an order with an id: the
\* createOrder they return is not awaited inside the try block, so its
\* completion reaches the caller as createOrder completed
CancelAndCreate(x, symbol, orderId, closeParams, defaultMessage) ==
    UNION {
        IF c.c.type = "throw"
        THEN {Outcome(CloseCatch(c.c.value, defaultMessage), c.x)}
        ELSE createOrder(c.x, closeParams) :
        c \in cancelOrder(x, symbol, orderId)}

closeOrderMarket(x, symbol, orderId) ==
    UNION {
        IF o.c.type = "throw"
        THEN {Outcome(CloseCatch(o.c.value, "Failed to close order at market price"), o.x)}
        ELSE IF FalsyStr(o.c.value.orderId)
        THEN {Outcome(CloseCatch(InvalidOrderError("Order not found"),
                                 "Failed to close order at market price"), o.x)}
        ELSE CancelAndCreate(o.x, symbol, orderId, MarketCloseParams(o.c.value),
                             "Failed to close order at market price") :
        o \in getOrder(Called(x, "closeOrderMarket", orderId, NoParams), symbol, orderId)}

closeOrderLimit(x, symbol, orderId, price) ==
    UNION {
        IF o.c.type = "throw"
        THEN {Outcome(CloseCatch(o.c.value, "Failed to close order at limit price"), o.x)}
        ELSE IF FalsyStr(o.c.value.orderId)
        THEN {Outcome(CloseCatch(InvalidOrderError("Order not found"),
                                 "Failed to close order at limit price"), o.x)}
        ELSE CancelAndCreate(o.x, symbol, orderId, LimitCloseParams(o.c.value, price),
                             "Failed to close order at limit price") :
        o \in getOrder(Called(x, "closeOrderLimit", orderId,
                              [NoParams EXCEPT !.price = price]), symbol, orderId)}

----------------------------------------------------------------------------
(* The state machine.  exchange is the state of the exchange; op, result   *)
(* and trace describe the call made on the core: the operation and its     *)
(* arguments, its completion, and the events of the call in order.  The    *)
(* core keeps nothing between calls, so a behaviour is one call, made on   *)
(* any state of the exchange: no order yet, or one order that a caller     *)
(* opened before and that the exchange has filled in part or in whole.     *)

Symbol == "BTC-USDT"

Op(name, arg, params, given, skip) ==
    [name |-> name, arg |-> arg, params |-> params, given |-> given, skip |-> skip]

NoOp == Op("none", "", NoParams, {}, FALSE)

\* The orders opened before the call
OpenInputs ==
    {OrderParams(Symbol, "buy", "limit", Num(MaxQty), Num(MaxPrice), "GTC"),
     OrderParams(Symbol, "sell", "market", Num(MaxQty), UndefinedNum, undefined),
     OrderParams(Symbol, "BUY", "LIMIT", Num(MaxQty), Num(1), undefined)}

Exchanges ==
    {[balances |-> <<WireBalance("BTC", Num(b)), WireBalance("USDT", Num(u))>>,
      lastPrice |-> p, orders |-> orders] :
        b \in {0, MaxBal}, u \in {0, MaxBal * MaxPrice}, p \in {1, MaxPrice},
        orders \in {<<>>} \cup {<<AcceptedOrder(OrderIdOf(1), o)>> : o \in OpenInputs}}

\* The orders a caller asks createOrder for
CreateInputs ==
    {OrderParams(Symbol, "buy", "limit", Num(1), Num(MaxPrice), "GTC"),
     OrderParams(Symbol, "sell", "market", Num(MaxQty), UndefinedNum, undefined),
     OrderParams(Symbol, "BUY", "limit", Num(MaxQty), Num(1), undefined),
     OrderParams(Symbol, "buy", "market", Num(0), UndefinedNum, undefined),
     OrderParams("ETH-USDT", "sell", "market", Num(1), UndefinedNum, undefined)}

OrderIds == {OrderIdOf(1), "non-existent-id"}

\* The configuration an instance holds: its three readonly fields
Config(apiKey, apiSecret, baseUrl) ==
    [apiKey |-> apiKey, apiSecret |-> apiSecret, baseUrl |-> baseUrl]

\* No instance: the constructor threw
NoInstance == Config(undefined, undefined, undefined)

\* A constructor that asks for the key only
BaseExchangeKeyOnly(apiKey, apiSecret, baseUrl) ==
    IF FalsyStr(apiKey)
    THEN Throw(AuthenticationError("API key and secret are required"))
    ELSE Return(Config(apiKey, apiSecret, baseUrl))

\* new BaseExchange(apiKey, apiSecret, baseUrl)
BaseExchange(apiKey, apiSecret, baseUrl) ==
    IF FalsyStr(apiKey) \/ FalsyStr(apiSecret)
    THEN Throw(AuthenticationError("API key and secret are required"))
    ELSE Return(Config(apiKey, apiSecret, baseUrl))

DefaultBaseUrl == "https://api.hyperliquid.io/v1"

\* new Hyperliquid(apiKey, apiSecret, baseUrl = DefaultBaseUrl)
Hyperliquid(apiKey, apiSecret, baseUrl) ==
    BaseExchange(apiKey, apiSecret,
                 IF baseUrl = undefined THEN DefaultBaseUrl ELSE baseUrl)

\* The instance the operations are called on
TestInstance == Hyperliquid("test-api-key", "test-api-secret", undefined).value

Init ==
    /\ core = TestInstance
    /\ exchange \in Exchanges
    /\ op = NoOp
    /\ result = Return("void")
    /\ trace = <<>>
    /\ phase = "idle"

\* The call o on the core completes as the outcome r
Completes(o, r) ==
    /\ core' = core
    /\ exchange' = r.x.ex
    /\ op' = o
    /\ result' = r.c
    /\ trace' = r.x.trace
    /\ phase' = "done"

GetCurrentPrice ==
    /\ phase = "idle"
    /\ \E symbol \in {Symbol, "ETH-USDT"} :
        \E r \in getCurrentPrice(Context(exchange, FaultKinds), symbol) :
            Completes(Op("getCurrentPrice", symbol, NoParams, {}, FALSE), r)

GetBalance ==
    /\ phase = "idle"
    /\ \E asset \in {"BTC", "USDT", "ETH", "btc"} :
        \E r \in getBalance(Context(exchange, FaultKinds), asset) :
            Completes(Op("getBalance", asset, NoParams, {}, FALSE), r)

CreateOrder ==
    /\ phase = "idle"
    /\ \E params \in CreateInputs :
        \E r \in createOrder(Context(exchange, FaultKinds), params) :
            Completes(Op("createOrder", "", params, {}, FALSE), r)

\* The partial params a caller passes to modifyOrder: a quantity, alone or
\* with a symbol, a side and a type of its own
ModifyInputs ==
    {[params |-> [NoParams EXCEPT !.quantity = quantity], given |-> {"quantity"}] :
        quantity \in {Num(-1), Num(1)}}
    \cup
    {[params |-> OrderParams("ETH-USDT", "sell", "market", quantity,
                             UndefinedNum, undefined),
      given |-> {"symbol", "side", "type", "quantity"}] :
        quantity \in {Num(-1), Num(1)}}

ModifyOrder ==
    /\ phase = "idle"
    /\ \E orderId \in OrderIds, i \in ModifyInputs :
        \E r \in modifyOrder(Context(exchange, FaultKinds), Symbol, orderId,
                             i.params, i.given) :
            Completes(Op("modifyOrder", orderId, i.params, i.given, FALSE), r)

CloseOrderMarket ==
    /\ phase = "idle"
    /\ \E orderId \in OrderIds :
        \E r \in closeOrderMarket(Context(exchange, FaultKinds), Symbol, orderId) :
            Completes(Op("closeOrderMarket", orderId, NoParams, {}, FALSE), r)

CloseOrderLimit ==
    /\ phase = "idle"
    /\ \E orderId \in OrderIds, price \in {Num(0), Num(MaxPrice)} :
        \E r \in closeOrderLimit(Context(exchange, FaultKinds), Symbol, orderId, price) :
            Completes(Op("closeOrderLimit", orderId, [NoParams EXCEPT !.price = price],
                         {}, FALSE), r)

\* Before the call, the exchange fills one unit of an open order
ExchangeFills ==
    \E i \in 1..Len(exchange.orders) :
        /\ phase = "idle"
        /\ exchange.orders[i].status \in {"new", "partially_filled"}
        /\ exchange.orders[i].remainingQuantity.tag = "num"
        /\ exchange.orders[i].remainingQuantity.v > 0
        /\ exchange' = [exchange EXCEPT !.orders[i] =
               [@ EXCEPT !.remainingQuantity = Num(@.v - 1),
                         !.filledQuantity = Num(@.v + 1),
                         !.status = IF exchange.orders[i].remainingQuantity.v = 1
                                    THEN "filled" ELSE "partially_filled"]]
        /\ UNCHANGED <<core, op, result, trace, phase>>

Next ==
    \/ GetCurrentPrice
    \/ GetBalance
    \/ CreateOrder
    \/ ModifyOrder
    \/ CloseOrderMarket
    \/ CloseOrderLimit
    \/ ExchangeFills

Spec == Init /\ [][Next]_vars

----------------------------------------------------------------------------
(* validateOrder and createOrder on any OrderParams a JavaScript caller    *)
(* can pass: fields missing, sides and types in either letter case or      *)
(* outside the vocabulary, quantities and prices negative, zero or         *)
(* positive.  The exchange holds any balances and no order.                *)

Symbols == {undefined, Symbol}
Sides == {undefined, "buy", "sell", "BUY", "hold"}
Types == {undefined, "market", "limit", "MARKET", "LIMIT", "stop"}
Quantities == {UndefinedNum} \cup {Num(n) : n \in -1..MaxQty}
Prices == {UndefinedNum} \cup {Num(n) : n \in -1..MaxPrice}

AnyParams ==
    {OrderParams(symbol, side, type, quantity, price, undefined) :
        symbol \in Symbols, side \in Sides, type \in Types,
        quantity \in Quantities, price \in Prices}

ValidateExchanges ==
    {[balances |-> <<WireBalance("BTC", Num(b)), WireBalance("USDT", Num(u))>>,
      lastPrice |-> MaxPrice, orders |-> <<>>] :
        b \in 0..MaxBal, u \in 0..MaxBal}

\* The faults the lookups of the balance check may meet
ValidateFaults == {"throws", "emptyBody"}

InitValidate ==
    /\ core = TestInstance
    /\ exchange \in ValidateExchanges
    /\ op = NoOp
    /\ result = Return("void")
    /\ trace = <<>>
    /\ phase = "idle"

ValidateOrder ==
    /\ phase = "idle"
    /\ \E params \in AnyParams, skipBalanceCheck \in BOOLEAN :
        \E r \in validateOrder(
                    Called(Context(exchange, ValidateFaults), "validateOrder", "", params),
                    params, skipBalanceCheck) :
            Completes(Op("validateOrder", "", params, {}, skipBalanceCheck), r)

CreateAnyOrder ==
    /\ phase = "idle"
    /\ \E params \in AnyParams :
        \E r \in createOrder(Context(exchange, ValidateFaults), params) :
            Completes(Op("createOrder", "", params, {}, FALSE), r)

NextValidate ==
    \/ ValidateOrder
    \/ CreateAnyOrder

SpecValidate == InitValidate /\ [][NextValidate]_vars

----------------------------------------------------------------------------
(* handleError on any failure: a taxonomy error, an Error object outside   *)
(* the taxonomy with or without a code and a message, or a thrown value    *)
(* that is not an Error object.                                            *)

Codes ==
    {undefined, "AUTH_ERROR", "INVALID_ORDER", "INSUFFICIENT_FUNDS", "NOT_FOUND",
     "ECONNRESET"}

Failures ==
    {RawError(m, c) : m \in {"", "boom"}, c \in Codes}
    \cup {NonError(m, c) : m \in {undefined, "boom"}, c \in Codes}
    \cup {AuthenticationError(m) : m \in {"", "boom"}}
    \cup {InvalidOrderError(m) : m \in {"", "boom"}}
    \cup {InsufficientFundsError(m) : m \in {"", "boom"}}
    \cup {ExchangeError(m, c, h) : m \in {"", "boom"}, c \in Codes,
                                   h \in {UndefinedNum}}

DefaultMessages == {"Failed to create order", "Failed to get balance"}

HandleErrorOp(error, defaultMessage) ==
    [name |-> "handleError", error |-> error, defaultMessage |-> defaultMessage]

InitHandleError ==
    /\ core = TestInstance
    /\ exchange \in {e \in Exchanges : e.orders = <<>> /\ e.lastPrice = 1}
    /\ op \in {HandleErrorOp(e, d) : e \in Failures, d \in DefaultMessages}
    /\ result = Return("void")
    /\ trace = <<>>
    /\ phase = "idle"

HandleError ==
    /\ phase = "idle"
    /\ result' = handleError(op.error, op.defaultMessage)
    /\ phase' = "done"
    /\ UNCHANGED <<core, exchange, op, trace>>

NextHandleError == HandleError

SpecHandleError == InitHandleError /\ [][NextHandleError]_vars

----------------------------------------------------------------------------
(* Properties.  A call has completed when phase = "done": op is the call,  *)
(* result its completion, trace its events.                                *)

Failed == phase = "done" /\ result.type = "throw"

\* The call failed with an error of this kind and message
FailedWith(kind, message) ==
    Failed /\ result.value.kind = kind /\ result.value.message = message

\* The positions of the requests sent, and of the entries of a method
Requests == {i \in 1..Len(trace) : trace[i].ev = "request"}
Calls(name) == {i \in 1..Len(trace) : trace[i].ev = "call" /\ trace[i].name = name}

CoreOperations ==
    {"getCurrentPrice", "getBalance", "createOrder", "modifyOrder",
     "closeOrderMarket", "closeOrderLimit"}

\* C1 as stated: every failure that a public operation of the core surfaces
\* to its caller is of one of the four taxonomy kinds, whatever the adapter
\* or the transport raised underneath, the createOrder that the close
\* operations make as their last step included.  (It holds of the calls on
\* the Hyperliquid adapter, whose createOrder normalises its own failures;
\* it fails on an adapter whose createOrder rejects with another failure.)
C1_SurfacedFailuresAreTaxonomy ==
    (Failed /\ op.name \in CoreOperations) =>
        result.value.kind \in {"ExchangeError", "AuthenticationError",
                               "InvalidOrderError", "InsufficientFundsError"}

PriceMessage == "Price is required for limit orders and must be greater than 0"

Absent(s) == s = undefined \/ s = ""
NotPositive(n) == n.tag # "num" \/ n.v <= 0

\* The message of the first check that fails, in the fixed order; "" when
\* none of the seven fails
FirstFailure(p) ==
    IF Absent(p.symbol) THEN "Symbol is required"
    ELSE IF Absent(p.side) THEN "Side is required"
    ELSE IF Absent(p.type) THEN "Type is required"
    ELSE IF NotPositive(p.quantity) THEN "Quantity must be greater than 0"
    ELSE IF toLowerCase(p.side) \notin {"buy", "sell"} THEN "Invalid side"
    ELSE IF toLowerCase(p.type) \notin {"market", "limit"} THEN "Invalid type"
    ELSE IF toLowerCase(p.type) = "limit" /\ NotPositive(p.price) THEN PriceMessage
    ELSE ""

Validated == phase = "done" /\ op.name = "validateOrder"

\* C2: validateOrder reports exactly one failure, the first of the seven
\* checks in their fixed order, as an InvalidOrderError with the message of
\* that check, and makes no outbound call (getBalances, getTicker) when one
\* of the seven fails.
C2_FirstFailureWins ==
    (Validated /\ FirstFailure(op.params) # "") =>
        /\ result = Throw(InvalidOrderError(FirstFailure(op.params)))
        /\ Requests = {}
        /\ Calls("getBalances") = {}
        /\ Calls("getTicker") = {}

\* Params failing the quantity check, the side check and the price check at
\* once: the quantity check, earliest in the order, is the one reported
C2_Witness ==
    /\ Validated
    /\ ~op.skip
    /\ op.params.symbol = Symbol
    /\ op.params.side = "hold"
    /\ op.params.type = "LIMIT"
    /\ op.params.quantity = Num(0)
    /\ op.params.price = UndefinedNum
    /\ FailedWith("InvalidOrderError", "Quantity must be greater than 0")
    /\ Requests = {}

\* C3 as stated: for all OrderParams with quantity <= 0, validateOrder fails
\* with InvalidOrderError 'Quantity must be greater than 0', whatever the
\* symbol, side, type and price.
C3_AsStated ==
    (Validated /\ op.params.quantity.tag = "num" /\ op.params.quantity.v <= 0) =>
        FailedWith("InvalidOrderError", "Quantity must be greater than 0")

\* C3: for all OrderParams that carry a symbol, a side and a type, with
\* quantity <= 0, validateOrder fails with InvalidOrderError 'Quantity must
\* be greater than 0', whatever the values of side, type and price.
C3_QuantityAfterPresence ==
    (/\ Validated
     /\ ~Absent(op.params.symbol) /\ ~Absent(op.params.side) /\ ~Absent(op.params.type)
     /\ op.params.quantity.tag = "num" /\ op.params.quantity.v <= 0) =>
        FailedWith("InvalidOrderError", "Quantity must be greater than 0")

\* A negative quantity with a side and a type outside the vocabulary
C3_Witness ==
    /\ Validated
    /\ op.params.symbol = Symbol
    /\ op.params.side = "hold"
    /\ op.params.type = "stop"
    /\ op.params.quantity = Num(-1)
    /\ op.params.price = Num(-1)
    /\ FailedWith("InvalidOrderError", "Quantity must be greater than 0")

\* C4 as stated: for all OrderParams with type = limit and price absent or
\* <= 0, validateOrder fails with an InvalidOrderError with the price message.
C4_AsStated ==
    (Validated /\ op.params.type = "limit" /\ NotPositive(op.params.price)) =>
        FailedWith("InvalidOrderError", PriceMessage)

\* C4: for all OrderParams that carry a symbol, a side that is buy or sell in
\* either letter case and a quantity > 0, with type = limit and price absent
\* or <= 0, validateOrder fails with an InvalidOrderError with the price
\* message.
C4_LimitNeedsPrice ==
    (/\ Validated
     /\ ~Absent(op.params.symbol)
     /\ ~Absent(op.params.side) /\ toLowerCase(op.params.side) \in {"buy", "sell"}
     /\ ~NotPositive(op.params.quantity)
     /\ op.params.type = "limit" /\ NotPositive(op.params.price)) =>
        FailedWith("InvalidOrderError", PriceMessage)

\* A limit order with a negative price and everything else in order
C4_Witness ==
    /\ Validated
    /\ op.params.symbol = Symbol
    /\ op.params.side = "BUY"
    /\ op.params.type = "limit"
    /\ op.params.quantity = Num(MaxQty)
    /\ op.params.price = Num(-1)
    /\ FailedWith("InvalidOrderError", PriceMessage)

\* Every request of the call got the exchange's own answer
FaultFree == \A i \in Requests : trace[i].reply.fault = "none"

\* The free balance the exchange holds of an asset
FreeOf(asset) ==
    LET i == CHOOSE j \in 1..Len(exchange.balances) : exchange.balances[j].asset = asset
    IN  exchange.balances[i].available.v

IsBuy(p) == toLowerCase(p.side) = "buy"
IsMarket(p) == toLowerCase(p.type) = "market"

\* The asset, the reference price and the required amount of the balance
\* step for an order on Symbol, with side and type read in either letter case
AssetToCheck(p) == IF IsBuy(p) THEN "USDT" ELSE "BTC"
AsksCurrentPrice(p) == IsMarket(p) \/ p.price.tag # "num"
ReferencePrice(p) == IF AsksCurrentPrice(p) THEN exchange.lastPrice ELSE p.price.v
Required(p) == IF IsBuy(p) THEN p.quantity.v * ReferencePrice(p) ELSE p.quantity.v

\* C5 as stated: for every order that passes the structural checks (side and
\* type accepted in either letter case) with skipBalanceCheck unset, the
\* balance step reads the balance of the quote asset for a buy and of the
\* base asset for a sell, asks getCurrentPrice for the price when type is
\* market or the price is absent and takes params.price otherwise, requires
\* quantity x price for a buy and quantity for a sell, and rejects the order
\* with InsufficientFundsError exactly when the free balance is below the
\* required amount.
C5_AsStated ==
    (/\ Validated /\ ~op.skip
     /\ FirstFailure(op.params) = ""
     /\ FaultFree) =>
        /\ \A i \in Calls("getBalance") : trace[i].url.arg = AssetToCheck(op.params)
        /\ Calls("getBalance") # {}
        /\ (Calls("getCurrentPrice") # {}) <=> AsksCurrentPrice(op.params)
        /\ (Failed /\ result.value.kind = "InsufficientFundsError")
               <=> FreeOf(AssetToCheck(op.params)) < Required(op.params)

Created == phase = "done" /\ op.name = "createOrder"

\* C6 as stated: for every structurally valid buy order whose required
\* amount quantity x referencePrice exceeds the free balance of the quote
\* asset, createOrder fails with InsufficientFundsError and sends no
\* order-submission request.
C6_AsStated ==
    (/\ Created
     /\ FirstFailure(op.params) = ""
     /\ IsBuy(op.params)
     /\ FaultFree
     /\ Required(op.params) > FreeOf("USDT")) =>
        /\ Failed /\ result.value.kind = "InsufficientFundsError"
        /\ \A i \in Requests : trace[i].name # "POST"

\* The positions of the requests of a method on a route
RequestsOf(method, route) ==
    {i \in Requests : trace[i].name = method /\ trace[i].url.route = route}

\* The order the exchange holds under the id the call names
HeldOrder ==
    exchange.orders[CHOOSE i \in 1..Len(exchange.orders) :
                        exchange.orders[i].orderId = op.arg]

\* getOrder returned the order the exchange holds, and cancelOrder succeeded
FetchedAndCancelled ==
    /\ \E i \in RequestsOf("GET", "/orders/") :
           trace[i].reply.fault = "none" /\ trace[i].reply.status = 200
    /\ \E i \in RequestsOf("DELETE", "/orders/") :
           trace[i].reply.status = 200 /\ trace[i].reply.json

Opposite(side) == IF toLowerCase(side) = "buy" THEN "sell" ELSE "buy"

\* createOrder was entered once, with these params, and every order
\* submission of the call carries them
SubmitsExactly(params) ==
    /\ Cardinality(Calls("createOrder")) = 1
    /\ \A i \in Calls("createOrder") : trace[i].body = params
    /\ Cardinality(RequestsOf("POST", "/orders")) <= 1
    /\ \A i \in RequestsOf("POST", "/orders") : trace[i].body = params

\* C7: when getOrder returns an order with an id and cancelOrder succeeds,
\* closeOrderMarket submits through createOrder exactly one order: its symbol
\* is the fetched order's, its side the opposite of the fetched order's, its
\* type market, its quantity the fetched order's remainingQuantity, and it
\* carries no price.
C7_MarketCloseOrder ==
    (phase = "done" /\ op.name = "closeOrderMarket" /\ FetchedAndCancelled) =>
        SubmitsExactly([symbol |-> HeldOrder.symbol,
                        side |-> Opposite(HeldOrder.side),
                        type |-> "market",
                        quantity |-> HeldOrder.remainingQuantity,
                        price |-> UndefinedNum,
                        timeInForce |-> undefined])

\* A buy order, sent in upper case and filled in part, is closed: the order
\* that comes back sells what remained, at market
C7_Witness ==
    /\ phase = "done" /\ op.name = "closeOrderMarket" /\ FetchedAndCancelled
    /\ HeldOrder.side = "BUY"
    /\ HeldOrder.remainingQuantity.v < HeldOrder.quantity.v
    /\ HeldOrder.remainingQuantity.v > 0
    /\ result.type = "return"
    /\ result.value.side = "sell"
    /\ result.value.type = "market"
    /\ result.value.quantity = HeldOrder.remainingQuantity

\* C8: when getOrder returns an order with an id and cancelOrder succeeds,
\* closeOrderLimit(symbol, orderId, price) submits through createOrder
\* exactly one order with the fetched order's symbol, the opposite side,
\* type limit, quantity the fetched order's remainingQuantity, price the
\* price argument, and timeInForce GTC.
C8_LimitCloseOrder ==
    (phase = "done" /\ op.name = "closeOrderLimit" /\ FetchedAndCancelled) =>
        SubmitsExactly([symbol |-> HeldOrder.symbol,
                        side |-> Opposite(HeldOrder.side),
                        type |-> "limit",
                        quantity |-> HeldOrder.remainingQuantity,
                        price |-> op.params.price,
                        timeInForce |-> "GTC"])

\* A sell order filled in part is closed at a limit price: the order that
\* comes back buys what remained at that price
C8_Witness ==
    /\ phase = "done" /\ op.name = "closeOrderLimit" /\ FetchedAndCancelled
    /\ HeldOrder.side = "sell"
    /\ HeldOrder.remainingQuantity.v < HeldOrder.quantity.v
    /\ HeldOrder.remainingQuantity.v > 0
    /\ op.params.price = Num(MaxPrice)
    /\ result.type = "return"
    /\ result.value.side = "buy"
    /\ result.value.type = "limit"
    /\ result.value.price = Num(MaxPrice)
    /\ result.value.quantity = HeldOrder.remainingQuantity

\* getOrder did not give an order to close: the exchange answered not found,
\* or the order that came back carries no id
NothingToClose ==
    \E i \in RequestsOf("GET", "/orders/") :
        \/ trace[i].reply.status = 404 /\ trace[i].reply.json
        \/ trace[i].reply.status = 200 /\ trace[i].reply.fault = "noOrderId"

\* C9: when the order to close does not exist (getOrder fails as not found,
\* or returns an order without an id), closeOrderMarket and closeOrderLimit
\* fail with InvalidOrderError and invoke neither cancelOrder nor createOrder.
\* (getOrder of this adapter never returns no order at all.)
C9_NothingToCloseFails ==
    (/\ phase = "done"
     /\ op.name \in {"closeOrderMarket", "closeOrderLimit"}
     /\ NothingToClose) =>
        /\ Failed /\ result.value.kind = "InvalidOrderError"
        /\ Calls("cancelOrder") = {}
        /\ Calls("createOrder") = {}
        /\ RequestsOf("DELETE", "/orders/") = {}
        /\ RequestsOf("POST", "/orders") = {}

\* closeOrderMarket on an id the exchange does not know
C9_Witness ==
    /\ phase = "done" /\ op.name = "closeOrderMarket"
    /\ op.arg = "non-existent-id"
    /\ \E i \in RequestsOf("GET", "/orders/") :
           trace[i].reply.status = 404 /\ trace[i].reply.fault = "none"
    /\ FailedWith("InvalidOrderError", "Order not found")
    /\ Calls("cancelOrder") = {}

Handled == phase = "done" /\ op.name = "handleError"

\* The kind a failure with this code becomes
KindOfCode(code) ==
    CASE code = "AUTH_ERROR" -> "AuthenticationError"
      [] code = "INVALID_ORDER" -> "InvalidOrderError"
      [] code = "INSUFFICIENT_FUNDS" -> "InsufficientFundsError"
      [] code = "NOT_FOUND" -> "InvalidOrderError"
      [] OTHER -> "ExchangeError"

MappedCodes == {"AUTH_ERROR", "INVALID_ORDER", "INSUFFICIENT_FUNDS", "NOT_FOUND"}

\* The failure is an error object with a message that is not empty
HasMessage(e) == e.isError /\ e.message # ""

\* C10 as stated: handleError never returns normally; a failure of one of the
\* four taxonomy kinds is re-raised unchanged; otherwise a failure with a
\* code becomes the kind of its code (AUTH_ERROR, INVALID_ORDER,
\* INSUFFICIENT_FUNDS, NOT_FOUND), or a generic ExchangeError carrying the
\* code for any other code; a failure without a code becomes a generic
\* ExchangeError with the failure's message or, when that is empty or the
\* failure is not an error object, the default message.
C10_AsStated ==
    Handled =>
        /\ result.type = "throw"
        /\ IF op.error.kind \in TaxonomyKinds
           THEN result.value = op.error
           ELSE IF op.error.code # undefined
           THEN /\ result.value.kind = KindOfCode(op.error.code)
                /\ op.error.code \notin MappedCodes => result.value.code = op.error.code
           ELSE /\ result.value.kind = "ExchangeError"
                /\ result.value.message =
                       IF HasMessage(op.error) THEN op.error.message
                       ELSE op.defaultMessage

\* C10: handleError never returns normally; a failure of one of the four
\* taxonomy kinds is re-raised unchanged; otherwise an error object with a
\* code becomes the kind of its code (AUTH_ERROR, INVALID_ORDER,
\* INSUFFICIENT_FUNDS, NOT_FOUND), or a generic ExchangeError carrying the
\* code for any other code; an error object without a code becomes a generic
\* ExchangeError with its message or, when that is empty, the default
\* message; a failure that is not an error object becomes a generic
\* ExchangeError with the default message and no code, whether or not it
\* carries a code.
C10_Classification ==
    Handled =>
        /\ result.type = "throw"
        /\ IF op.error.kind \in TaxonomyKinds
           THEN result.value = op.error
           ELSE IF op.error.isError /\ op.error.code # undefined
           THEN /\ result.value.kind = KindOfCode(op.error.code)
                /\ op.error.code \notin MappedCodes => result.value.code = op.error.code
           ELSE /\ result.value.kind = "ExchangeError"
                /\ result.value.code = undefined
                /\ result.value.message =
                       IF HasMessage(op.error) THEN op.error.message
                       ELSE op.defaultMessage

\* A thrown value that is not an error object and carries the code
\* AUTH_ERROR comes out as a generic ExchangeError with the default message
C10_Witness ==
    /\ Handled
    /\ ~op.error.isError
    /\ op.error.code = "AUTH_ERROR"
    /\ op.error.message = "boom"
    /\ result = Throw(ExchangeError(op.defaultMessage, undefined, UndefinedNum))

\* C11 as stated: for any failure that carries the code NOT_FOUND, a generic
\* ExchangeError with code NOT_FOUND (as the transport raises for a url that
\* is not of an order) included, handleError yields InvalidOrderError and
\* never a generic ExchangeError.
C11_AsStated ==
    (Handled /\ op.error.code = "NOT_FOUND") =>
        /\ result.type = "throw"
        /\ result.value.kind = "InvalidOrderError"

\* C11: for any failure that is an error object outside the four taxonomy
\* kinds and carries the code NOT_FOUND, handleError yields InvalidOrderError
\* and never a generic ExchangeError.
C11_NotFoundOutsideTaxonomy ==
    (/\ Handled
     /\ op.error.isError
     /\ op.error.kind \notin TaxonomyKinds
     /\ op.error.code = "NOT_FOUND") =>
        /\ result.type = "throw"
        /\ result.value.kind = "InvalidOrderError"

\* An error object with the code NOT_FOUND and no message comes out as
\* InvalidOrderError 'Order not found'
C11_Witness ==
    /\ Handled
    /\ op.error = RawError("", "NOT_FOUND")
    /\ result = Throw(InvalidOrderError("Order not found"))

----------------------------------------------------------------------------
(* The operations of BaseExchange on any adapter: the methods the core     *)
(* declares abstract (getTicker, getBalances, getOrder, cancelOrder,       *)
(* createOrder) behave as those of Hyperliquid or raise a failure of their *)
(* own, of the taxonomy or not.                                            *)

AdapterFailures ==
    {RawError("", undefined), RawError("boom", undefined),
     NonError(undefined, undefined), AuthenticationError("Invalid signature")}

CoreGetCurrentPrice ==
    /\ phase = "idle"
    /\ \E r \in getCurrentPrice(AdapterContext(exchange, {}, AdapterFailures), Symbol) :
           Completes(Op("getCurrentPrice", Symbol, NoParams, {}, FALSE), r)

CoreGetBalance ==
    /\ phase = "idle"
    /\ \E asset \in {"BTC", "ETH"} :
        \E r \in getBalance(AdapterContext(exchange, {}, AdapterFailures), asset) :
            Completes(Op("getBalance", asset, NoParams, {}, FALSE), r)

CoreValidateOrder ==
    /\ phase = "idle"
    /\ \E params \in CreateInputs :
        \E r \in validateOrder(
                    Called(AdapterContext(exchange, {}, AdapterFailures),
                           "validateOrder", "", params),
                    params, FALSE) :
            Completes(Op("validateOrder", "", params, {}, FALSE), r)

CoreCloseOrderMarket ==
    /\ phase = "idle"
    /\ \E orderId \in OrderIds :
        \E r \in closeOrderMarket(AdapterContext(exchange, {}, AdapterFailures),
                                  Symbol, orderId) :
            Completes(Op("closeOrderMarket", orderId, NoParams, {}, FALSE), r)

CoreCloseOrderLimit ==
    /\ phase = "idle"
    /\ \E orderId \in OrderIds :
        \E r \in closeOrderLimit(AdapterContext(exchange, {}, AdapterFailures),
                                 Symbol, orderId, Num(MaxPrice)) :
            Completes(Op("closeOrderLimit", orderId,
                         [NoParams EXCEPT !.price = Num(MaxPrice)], {}, FALSE), r)

NextCore ==
    \/ CoreGetCurrentPrice
    \/ CoreGetBalance
    \/ CoreValidateOrder
    \/ CoreCloseOrderMarket
    \/ CoreCloseOrderLimit

SpecCore == Init /\ [][NextCore]_vars

\* The call ended when a method of the adapter raised a failure of its own:
\* nothing was called or sent after it
Steps == {i \in 1..Len(trace) : trace[i].ev # "completed"}
LastRaise == trace[CHOOSE i \in Steps : \A j \in Steps : j <= i]
EndedByRaise(names) ==
    /\ phase = "done"
    /\ Steps # {}
    /\ LastRaise.ev = "raise"
    /\ LastRaise.name \in names

\* A failure outside the taxonomy with neither a code nor a message
Bare(e) ==
    /\ e.kind \notin TaxonomyKinds
    /\ e.code = undefined
    /\ e.message \in {undefined, ""}

CloseMessage ==
    IF op.name = "closeOrderMarket" THEN "Failed to close order at market price"
    ELSE "Failed to close order at limit price"

\* C12 as stated: in closeOrderMarket (closeOrderLimit), when getOrder,
\* cancelOrder or the final createOrder fails with a failure outside the
\* taxonomy that has neither a code nor a message, the caller receives a
\* generic ExchangeError with the message 'Failed to close order at market
\* price' ('Failed to close order at limit price').
C12_AsStated ==
    (/\ op.name \in {"closeOrderMarket", "closeOrderLimit"}
     /\ EndedByRaise({"getOrder", "cancelOrder", "createOrder"})
     /\ Bare(LastRaise.reply)) =>
        FailedWith("ExchangeError", CloseMessage)

\* C13 as stated: when getBalances or getTicker fails during the balance
\* step of validateOrder with a failure outside the taxonomy that has
\* neither a code nor a message, validateOrder fails with a generic
\* ExchangeError with the message 'Failed to validate balance'.
C13_AsStated ==
    (/\ Validated
     /\ EndedByRaise({"getBalances", "getTicker"})
     /\ Bare(LastRaise.reply)) =>
        FailedWith("ExchangeError", "Failed to validate balance")

\* The argument of the one entry of a method in the call
ArgOf(name) == trace[CHOOSE i \in Calls(name) : TRUE].url.arg

\* C13: when getBalances or getTicker fails during the balance step of
\* validateOrder with a failure outside the taxonomy that has neither a code
\* nor a message, validateOrder fails with a generic ExchangeError with the
\* message that getBalance or getCurrentPrice gave it: 'Failed to get balance
\* for {asset}' when getBalances failed, 'Failed to get current price for
\* {symbol}' when getTicker failed.
C13_LookupMessageKept ==
    (/\ Validated
     /\ EndedByRaise({"getBalances", "getTicker"})
     /\ Bare(LastRaise.reply)) =>
        FailedWith("ExchangeError",
                   IF LastRaise.name = "getBalances"
                   THEN "Failed to get balance for " \o ArgOf("getBalance")
                   ELSE "Failed to get current price for " \o op.params.symbol)

\* The balance of a market sell was read, then getTicker raised an Error
\* without a message: the failure carries the message of getCurrentPrice
C13_Witness ==
    /\ Validated
    /\ EndedByRaise({"getTicker"})
    /\ LastRaise.reply = RawError("", undefined)
    /\ op.params.type = "market"
    /\ Calls("getBalances") # {}
    /\ FailedWith("ExchangeError", "Failed to get current price for BTC-USDT")

\* The positions at which a method completed, as the trace keeps them
Completions(name) ==
    {i \in 1..Len(trace) : trace[i].ev = "completed" /\ trace[i].name = name}

\* C14: createOrder runs validateOrder to completion before it submits:
\* whenever validateOrder fails (a structural check, insufficient funds, a
\* failed balance or price lookup) no order-submission request is sent, and
\* the failure reaches the caller as validateOrder raised it.
C14_ValidatesBeforeSubmitting ==
    Created =>
        /\ Cardinality(Completions("validateOrder")) = 1
        /\ \A i \in Completions("validateOrder") :
            /\ \A j \in RequestsOf("POST", "/orders") : i < j
            /\ trace[i].reply.type = "throw" =>
                   /\ RequestsOf("POST", "/orders") = {}
                   /\ result = trace[i].reply

\* A buy in lower case that the quote balance does not cover: validateOrder
\* raised InsufficientFundsError, createOrder fails with it, nothing is sent
C14_Witness ==
    /\ Created
    /\ op.params.side = "buy"
    /\ FaultFree
    /\ \E i \in Completions("validateOrder") :
           /\ trace[i].reply.type = "throw"
           /\ trace[i].reply.value.kind = "InsufficientFundsError"
    /\ Failed /\ result.value.kind = "InsufficientFundsError"
    /\ RequestsOf("POST", "/orders") = {}

Modified == phase = "done" /\ op.name = "modifyOrder"

\* The order getOrder returned in the call
FetchedOrder == trace[CHOOSE i \in Completions("getOrder") : TRUE].reply.value
Fetched ==
    \E i \in Completions("getOrder") : trace[i].reply.type = "return"

\* The value of a field of the merged params: the caller's when the caller
\* gave it, the existing order's otherwise
Merged(field) ==
    IF field \in op.given THEN op.params[field] ELSE FetchedOrder[field]

\* C15: modifyOrder fetches the existing order, overlays the caller's
\* partial params but keeps the existing order's symbol, side and type,
\* validates the merged params with the balance check skipped (it never
\* calls getBalances or getTicker), and sends the update request only if the
\* validation passes; merged params with quantity <= 0 fail with 'Quantity
\* must be greater than 0' and no update request is sent.
C15_ModifyMergesAndValidates ==
    Modified =>
        /\ Calls("getBalances") = {} /\ Calls("getTicker") = {}
        /\ Cardinality(Completions("getOrder")) = 1
        /\ \A j \in RequestsOf("PUT", "/orders/") :
            /\ Fetched
            /\ \E i \in Completions("validateOrder") :
                   i < j /\ trace[i].reply.type = "return"
            /\ \A i \in Completions("getOrder") : i < j
            /\ trace[j].body.symbol = FetchedOrder.symbol
            /\ trace[j].body.side = FetchedOrder.side
            /\ trace[j].body.type = FetchedOrder.type
            /\ trace[j].body.quantity = Merged("quantity")
            /\ trace[j].body.price = Merged("price")
        /\ (Fetched /\ Merged("quantity").tag = "num" /\ Merged("quantity").v <= 0) =>
               /\ FailedWith("InvalidOrderError", "Quantity must be greater than 0")
               /\ RequestsOf("PUT", "/orders/") = {}

\* The caller passes a symbol, a side and a type of its own with a new
\* quantity for a buy order: the update keeps the order's three fields
C15_Witness ==
    /\ Modified
    /\ "side" \in op.given
    /\ op.params.side = "sell"
    /\ Fetched
    /\ FetchedOrder.side = "buy"
    /\ \E j \in RequestsOf("PUT", "/orders/") :
           /\ trace[j].body.side = "buy"
           /\ trace[j].body.symbol = Symbol
           /\ trace[j].body.quantity = Num(1)
    /\ result.type = "return"

\* The methods of the adapter
AdapterMethods ==
    {"getTicker", "getBalances", "getOrder", "cancelOrder", "createOrder",
     "modifyOrder"}

\* The request at position i failed: fetch threw, the body did not parse or
\* the status is not a 2xx
Refused(i) ==
    \/ trace[i].reply.throws
    \/ ~trace[i].reply.json
    \/ trace[i].reply.status \notin 200..299

\* C16: no operation retries: within one call each method of the adapter
\* is entered at most once and each request is sent at most once; a failed
\* request is the last request of the call, and the call fails; createOrder
\* reads the balances at most once and the ticker at most once before at
\* most one submission.
C16_NoRetries ==
    phase = "done" =>
        /\ \A name \in AdapterMethods : Cardinality(Calls(name)) <= 1
        /\ \A i, j \in Requests :
               (trace[i].name = trace[j].name /\ trace[i].url = trace[j].url)
                   => i = j
        /\ \A i \in Requests :
               Refused(i) => Failed /\ \A j \in Requests : j <= i
        /\ Created =>
               /\ Cardinality(RequestsOf("GET", "/balances")) <= 1
               /\ Cardinality(RequestsOf("GET", "/ticker/")) <= 1
               /\ Cardinality(RequestsOf("POST", "/orders")) <= 1
               /\ \A i \in RequestsOf("GET", "/balances") \cup RequestsOf("GET", "/ticker/") :
                      \A j \in RequestsOf("POST", "/orders") : i < j

\* A close operation whose cancel request failed after the order was
\* fetched: nothing is sent after the DELETE
C16_Witness ==
    /\ phase = "done"
    /\ op.name \in {"closeOrderMarket", "closeOrderLimit"}
    /\ Failed
    /\ \E i \in RequestsOf("GET", "/orders/"), j \in RequestsOf("DELETE", "/orders/") :
           /\ ~Refused(i)
           /\ Refused(j)
           /\ \A k \in Requests : k <= j
    /\ Calls("createOrder") = {}

\* What getBalances returned in the call, and the positions in it of the
\* balances of an asset
Balances == trace[CHOOSE i \in Completions("getBalances") : TRUE].reply.value
GotBalances ==
    \E i \in Completions("getBalances") : trace[i].reply.type = "return"
EntriesOf(asset) == {k \in 1..Len(Balances) : Balances[k].asset = asset}

\* The asset getBalance was called with
AskedAsset == trace[CHOOSE i \in Calls("getBalance") : TRUE].url.arg

NotFoundMessage(asset) == "Balance not found for asset " \o asset

\* C17: getBalance(asset) returns the balance of getBalances() whose asset
\* equals the argument exactly and fails with InvalidOrderError 'Balance not
\* found for asset {asset}' when there is none; the failure keeps its kind and
\* message through getBalance's normalization and through the balance step
\* of validateOrder (here inside createOrder, which then submits nothing).
C17_ExactBalanceOrNotFound ==
    /\ (phase = "done" /\ op.name = "getBalance" /\ GotBalances) =>
           IF EntriesOf(op.arg) = {}
           THEN FailedWith("InvalidOrderError", NotFoundMessage(op.arg))
           ELSE /\ result.type = "return"
                /\ result.value.asset = op.arg
                /\ \E k \in EntriesOf(op.arg) :
                       /\ result.value = Balances[k]
                       /\ \A l \in EntriesOf(op.arg) : k <= l
    /\ (Created /\ Calls("getBalance") # {} /\ GotBalances
            /\ EntriesOf(AskedAsset) = {}) =>
           /\ FailedWith("InvalidOrderError", NotFoundMessage(AskedAsset))
           /\ RequestsOf("POST", "/orders") = {}

\* A sell order for ETH on an exchange that holds BTC and USDT only: the
\* balance step does not find ETH
C17_Witness ==
    /\ Created
    /\ op.params.symbol = "ETH-USDT"
    /\ GotBalances
    /\ Len(Balances) = 2
    /\ AskedAsset = "ETH"
    /\ FailedWith("InvalidOrderError", "Balance not found for asset ETH")

\* getBalance('btc') on an exchange whose balance is listed as BTC
C17_WitnessExact ==
    /\ phase = "done" /\ op.name = "getBalance" /\ op.arg = "btc"
    /\ GotBalances
    /\ \E k \in 1..Len(Balances) : Balances[k].asset = "BTC"
    /\ FailedWith("InvalidOrderError", "Balance not found for asset btc")

\* ---------------------------------------------------------------------------
\* A session: an instance is constructed, then up to MaxCalls operations are
\* called on it one after the other, while the balances on the exchange may
\* change between two calls. The trace keeps the events of the whole session.
\* ---------------------------------------------------------------------------

MaxCalls == 2
MaxDeposits == 1

\* The keys, secrets and base URLs a caller may construct an instance with
Credentials == {undefined, "", "test-api-key"}
BaseUrls == {undefined, "http://localhost:3000"}

SessionFaults == {"throws", "status401"}

SessionExchanges ==
    {e \in Exchanges : e.orders = <<>> /\ e.lastPrice = 1}

InitSession ==
    /\ core = NoInstance
    /\ exchange \in SessionExchanges
    /\ op = NoOp
    /\ result = Return("void")
    /\ trace = <<>>
    /\ phase = "new"

\* The positions at which an operation (not the constructor) begins and ends
Begins == {i \in 1..Len(trace) : trace[i].ev = "begin" /\ trace[i].name # "constructor"}
Ends == {i \in 1..Len(trace) : trace[i].ev = "end"}
Deposits == {i \in 1..Len(trace) : trace[i].ev = "deposit"}

Construct ==
    /\ phase = "new"
    /\ \E apiKey \in Credentials, apiSecret \in Credentials, baseUrl \in BaseUrls :
        LET c == Hyperliquid(apiKey, apiSecret, baseUrl) IN
        /\ core' = IF c.type = "return" THEN c.value ELSE NoInstance
        /\ result' = c
        /\ op' = Op("constructor", "", NoParams, {}, FALSE)
        /\ trace' = <<Event("begin", "constructor", Url("", ""),
                            Config(apiKey, apiSecret, baseUrl), c)>>
        /\ phase' = IF c.type = "return" THEN "idle" ELSE "done"
        /\ UNCHANGED exchange

\* The context of the next call of the session
SessionContext(name, arg, body) ==
    [AdapterContext(exchange, SessionFaults, {}) EXCEPT
        !.trace = Append(trace, Event("begin", name, Url("", arg), body,
                                      Return("void")))]

\* A call of the session completed as r
SessionCompletes(o, r) ==
    /\ core' = core
    /\ exchange' = r.x.ex
    /\ op' = o
    /\ result' = r.c
    /\ trace' = Append(r.x.trace, Event("end", o.name, Url("", o.arg), o.params, r.c))
    /\ UNCHANGED phase

SessionGetBalance ==
    /\ phase = "idle"
    /\ Cardinality(Begins) < MaxCalls
    /\ \E asset \in {"BTC", "USDT"} :
        \E r \in getBalance(SessionContext("getBalance", asset, NoParams), asset) :
            SessionCompletes(Op("getBalance", asset, NoParams, {}, FALSE), r)

SessionGetCurrentPrice ==
    /\ phase = "idle"
    /\ Cardinality(Begins) < MaxCalls
    /\ \E r \in getCurrentPrice(SessionContext("getCurrentPrice", Symbol, NoParams),
                                Symbol) :
            SessionCompletes(Op("getCurrentPrice", Symbol, NoParams, {}, FALSE), r)

SessionCreateOrder ==
    /\ phase = "idle"
    /\ Cardinality(Begins) < MaxCalls
    /\ \E params \in {OrderParams(Symbol, "sell", "market", Num(1), UndefinedNum,
                                  undefined)} :
        \E r \in createOrder(SessionContext("createOrder", "", params), params) :
            SessionCompletes(Op("createOrder", "", params, {}, FALSE), r)

\* The balance of BTC on the exchange changes between two calls
Deposit ==
    /\ phase = "idle"
    /\ Cardinality(Deposits) < MaxDeposits
    /\ exchange' = [exchange EXCEPT !.balances[1] =
           WireBalance("BTC", Num(exchange.balances[1].available.v + 1))]
    /\ trace' = Append(trace, Event("deposit", "BTC", Url("", ""), NoParams,
                                    Return("void")))
    /\ UNCHANGED <<core, op, result, phase>>

NextSession ==
    \/ Construct
    \/ SessionGetBalance
    \/ SessionGetCurrentPrice
    \/ SessionCreateOrder
    \/ Deposit

SpecSession == InitSession /\ [][NextSession]_vars

Constructed == Len(trace) >= 1 /\ trace[1].name = "constructor"
ConstructorArgs == trace[1].body

\* C19: constructing an instance with an empty or absent apiKey or an empty
\* or absent apiSecret fails with AuthenticationError 'API key and secret are
\* required' (code AUTH_ERROR, status 401) and yields no instance;
\* construction with both non-empty succeeds, with the configuration given,
\* and sends no request (every request of the session follows the begin of
\* an operation).
C19_ConstructorNeedsCredentials ==
    Constructed =>
        IF FalsyStr(ConstructorArgs.apiKey) \/ FalsyStr(ConstructorArgs.apiSecret)
        THEN /\ trace[1].reply.type = "throw"
             /\ trace[1].reply.value.kind = "AuthenticationError"
             /\ trace[1].reply.value.message = "API key and secret are required"
             /\ trace[1].reply.value.code = "AUTH_ERROR"
             /\ trace[1].reply.value.httpStatus = Num(401)
             /\ core = NoInstance
             /\ Len(trace) = 1
        ELSE /\ trace[1].reply.type = "return"
             /\ core # NoInstance
             /\ core.apiKey = ConstructorArgs.apiKey
             /\ core.apiSecret = ConstructorArgs.apiSecret
             /\ \A i \in Requests : \E b \in Begins : b < i

\* A key with an empty secret: the constructor throws
C19_Witness ==
    /\ Constructed
    /\ ConstructorArgs.apiKey = "test-api-key"
    /\ ConstructorArgs.apiSecret = ""
    /\ result.type = "throw"
    /\ core = NoInstance

\* The end of the operation that begins at b
EndOf(b) == CHOOSE e \in Ends : e > b /\ \A f \in Ends : f > b => e <= f

\* The getBalance calls of the session that returned
BalanceReturns ==
    {b \in Begins : /\ trace[b].name = "getBalance"
                    /\ \E e \in Ends : e > b
                    /\ trace[EndOf(b)].reply.type = "return"}

\* C18: the core keeps no state between calls: after any sequence of
\* operations, successful or failed, the configuration of the instance is
\* the one it was constructed with; every getBalance call of the session
\* queries the adapter (a getBalances call and a GET /balances request lie
\* between its begin and its end); and two getBalance calls for the same
\* asset with no change of the balances on the exchange in between return
\* identical snapshots.
C18_NoStateBetweenCalls ==
    (Constructed /\ trace[1].reply.type = "return") =>
        /\ core = trace[1].reply.value
        /\ \A b \in Begins :
               (trace[b].name = "getBalance" /\ \E e \in Ends : e > b) =>
                   /\ \E k \in Calls("getBalances") : b < k /\ k < EndOf(b)
                   /\ \E k \in RequestsOf("GET", "/balances") : b < k /\ k < EndOf(b)
        /\ \A b1, b2 \in BalanceReturns :
               (/\ b1 < b2
                /\ trace[b1].url.arg = trace[b2].url.arg
                /\ \A d \in Deposits : d < b1 \/ d > b2) =>
                   trace[EndOf(b1)].reply.value = trace[EndOf(b2)].reply.value

\* Two getBalance('BTC') calls that returned, after a deposit and with none
\* in between
C18_Witness ==
    /\ core = Config("test-api-key", "test-api-key", DefaultBaseUrl)
    /\ \E b1, b2 \in BalanceReturns :
           /\ b1 < b2
           /\ trace[b1].url.arg = "BTC"
           /\ trace[b2].url.arg = "BTC"
           /\ \A d \in Deposits : d < b1
           /\ Deposits # {}
           /\ trace[EndOf(b1)].reply.value = trace[EndOf(b2)].reply.value
           /\ Cardinality(RequestsOf("GET", "/balances")) = 2

\* ---------------------------------------------------------------------------
\* makeRequest on its own: a url and a response of fetch are drawn, and
\* makeRequest is applied to them.
\* ---------------------------------------------------------------------------

Statuses == {0, 200, 400, 401, 404, 500}

BodyCodes ==
    {undefined, "AUTH_ERROR", "NOT_FOUND", "INVALID_ORDER", "INSUFFICIENT_FUNDS",
     "INVALID_SYMBOL", "RATE_LIMIT"}

Responses ==
    {Response(status, ErrorData(error, code)) :
        status \in Statuses, error \in {undefined, "Denied"}, code \in BodyCodes}
    \cup {Unparsable(status) : status \in Statuses}
    \cup {FetchThrows(RawError("fetch failed", undefined))}

Urls == {Url("/orders/", OrderIdOf(1)), Url("/orders", ""), Url("/balances", "")}

MakeRequestOp(url, response) ==
    [name |-> "makeRequest", url |-> url, response |-> response]

InitMakeRequest ==
    /\ core = TestInstance
    /\ exchange \in {e \in Exchanges : e.orders = <<>> /\ e.lastPrice = 1
                                       /\ e.balances[1].available = Num(0)
                                       /\ e.balances[2].available = Num(0)}
    /\ op \in {MakeRequestOp(u, r) : u \in Urls, r \in Responses}
    /\ result = Return("void")
    /\ trace = <<>>
    /\ phase = "idle"

MakeRequest ==
    /\ phase = "idle"
    /\ result' = makeRequest(op.url, op.response)
    /\ phase' = "done"
    /\ UNCHANGED <<core, exchange, op, trace>>

NextMakeRequest == MakeRequest

SpecMakeRequest == InitMakeRequest /\ [][NextMakeRequest]_vars

Requested == phase = "done" /\ op.name = "makeRequest"

\* The response has status 401, or its body carries the code AUTH_ERROR
AuthenticationFailure(response) ==
    /\ ~response.throws
    /\ \/ response.status = 401
       \/ response.json /\ response.data.code = "AUTH_ERROR"

RaisesAuthenticationError ==
    result.type = "throw" /\ result.value.kind = "AuthenticationError"

\* C20 as stated: for every response with status 401 or with the body code
\* AUTH_ERROR, makeRequest raises AuthenticationError, whatever the other
\* attributes of the response (a status 404, a body that does not parse).
C20_AsStated ==
    (Requested /\ AuthenticationFailure(op.response)) => RaisesAuthenticationError

\* What makeRequest does: the authentication check comes after the check of
\* status 0, the parse of the body and the check of status 404
AuthenticationCheckedThird ==
    (Requested /\ AuthenticationFailure(op.response)) =>
        IF op.response.status = 0
        THEN result = Throw(ExchangeError("Network error: Unable to reach server",
                                          "NETWORK_ERROR", UndefinedNum))
        ELSE IF ~op.response.json
        THEN result = Throw(ExchangeError("Invalid response format",
                                          "INVALID_RESPONSE", UndefinedNum))
        ELSE IF op.response.status = 404
        THEN result.type = "throw"
             /\ result.value.kind \in {"InvalidOrderError", "ExchangeError"}
        ELSE RaisesAuthenticationError

\* The codes of a body that makeRequest tells apart
RecognizedCodes ==
    {"AUTH_ERROR", "INVALID_ORDER", "INSUFFICIENT_FUNDS", "INVALID_SYMBOL", "NOT_FOUND"}

\* The failure makeRequest raises for a 404: by the url of the request
RaisesNotFound ==
    /\ result.type = "throw"
    /\ IF op.url.route = "/orders/"
       THEN result.value.kind = "InvalidOrderError"
       ELSE /\ result.value.kind = "ExchangeError"
            /\ result.value.code = "NOT_FOUND"

\* A response that is no success, no 404, no authentication failure and
\* carries none of the codes makeRequest tells apart
Unrecognized(response) ==
    /\ ~response.throws
    /\ ~Ok(response)
    /\ response.status \notin {401, 404}
    /\ response.data.code \notin RecognizedCodes

Closed == phase = "done" /\ op.name \in {"closeOrderMarket", "closeOrderLimit"}

\* The positions at which a method completed by returning, and by throwing
Returns(name) == {i \in Completions(name) : trace[i].reply.type = "return"}
Throws(name) == {i \in Completions(name) : trace[i].reply.type = "throw"}

\* C22: in closeOrderMarket and closeOrderLimit the calls occur in the
\* order getOrder, cancelOrder, createOrder, each at most once: cancelOrder
\* is called only after getOrder returned an order with an id, createOrder
\* only after cancelOrder returned, and a cancelOrder that failed ends the
\* operation with an error and without a createOrder.
C22_CloseSequence ==
    Closed =>
        /\ Cardinality(Calls("getOrder")) = 1
        /\ Cardinality(Calls("cancelOrder")) <= 1
        /\ Cardinality(Calls("createOrder")) <= 1
        /\ \A c \in Calls("cancelOrder") :
               \E g \in Returns("getOrder") :
                   /\ g < c
                   /\ ~FalsyStr(trace[g].reply.value.orderId)
        /\ \A k \in Calls("createOrder") :
               /\ \E d \in Returns("cancelOrder") : d < k
               /\ \A c \in Calls("cancelOrder") : c < k
        /\ Throws("cancelOrder") # {} =>
               /\ Failed
               /\ Calls("createOrder") = {}
               /\ RequestsOf("POST", "/orders") = {}

\* getOrder returned the order, cancelOrder failed: the close ends there
C22_Witness ==
    /\ Closed
    /\ \E g \in Returns("getOrder") : trace[g].reply.value.orderId = OrderIdOf(1)
    /\ Throws("cancelOrder") # {}
    /\ Calls("createOrder") = {}
    /\ Failed

\* The order came back without an id: nothing is cancelled
C22_WitnessNoId ==
    /\ Closed
    /\ \E g \in Returns("getOrder") : FalsyStr(trace[g].reply.value.orderId)
    /\ Calls("cancelOrder") = {}
    /\ FailedWith("InvalidOrderError", "Order not found")

\* The createOrder of the closing order failed after cancelOrder returned:
\* its validation threw (a structural check, or the balance of the asset the
\* reversed side needs), or the exchange answered its submission with a
\* status that is no success
ClosingOrderRejected ==
    /\ Closed
    /\ Returns("cancelOrder") # {}
    /\ Calls("createOrder") # {}
    /\ \/ Throws("validateOrder") # {}
       \/ \E i \in RequestsOf("POST", "/orders") :
              ~trace[i].reply.throws /\ trace[i].reply.status \notin 200..299

\* C23: the close operations do not compensate: when the createOrder of
\* the closing order fails after cancelOrder succeeded (validation, balance
\* or a rejection by the exchange), the operation ends with an error, the
\* original order stays canceled on the exchange, the exchange holds no
\* closing order, and nothing is sent after the failure: no update, no
\* second submission, no submission on the original order's side.
C23_NoCompensation ==
    ClosingOrderRejected =>
        /\ Failed
        /\ HeldOrder.status = "canceled"
        /\ Len(exchange.orders) = 1
        /\ RequestsOf("PUT", "/orders/") = {}
        /\ Cardinality(RequestsOf("POST", "/orders")) <= 1
        /\ \A i \in RequestsOf("POST", "/orders") :
               /\ trace[i].body.side = Opposite(HeldOrder.side)
               /\ \A j \in Requests : j <= i
        /\ (RequestsOf("POST", "/orders") = {}) =>
               \A d \in RequestsOf("DELETE", "/orders/"), j \in Requests :
                   j > d => trace[j].name = "GET"

\* A buy order is cancelled, and the sell order that would close it fails
\* the balance check: the exchange holds no BTC
C23_Witness ==
    /\ ClosingOrderRejected
    /\ toLowerCase(HeldOrder.side) = "buy"
    /\ HeldOrder.status = "canceled"
    /\ result.type = "throw"
    /\ result.value.kind = "InsufficientFundsError"
    /\ RequestsOf("POST", "/orders") = {}

\* The closing order passed its validation and the exchange rejected it
C23_WitnessRejected ==
    /\ ClosingOrderRejected
    /\ Throws("validateOrder") = {}
    /\ \E i \in RequestsOf("POST", "/orders") : trace[i].reply.status = 400
    /\ HeldOrder.status = "canceled"
    /\ Failed

\* ---------------------------------------------------------------------------
\* Two callers in createOrder at the same time. A call yields where it
\* awaits: after validateOrder returned, another call (or the exchange) may
\* run before the POST is sent. op, result and phase are functions of the
\* caller here; trace is the log of the steps of both, each step opened by
\* a "step" event that names its caller.
\* ---------------------------------------------------------------------------

Callers == {"first", "second"}

\* The orders the callers ask for
RaceInputs ==
    {OrderParams(Symbol, "sell", "market", Num(MaxQty), UndefinedNum, undefined),
     OrderParams(Symbol, "buy", "limit", Num(1), Num(MaxPrice), "GTC")}

RaceFaults == {"throws"}

RaceExchanges == {e \in Exchanges : e.orders = <<>> /\ e.lastPrice = 1}

InitRace ==
    /\ core = TestInstance
    /\ exchange \in RaceExchanges
    /\ op = [p \in Callers |-> NoOp]
    /\ result = [p \in Callers |-> Return("void")]
    /\ trace = <<>>
    /\ phase = [p \in Callers |-> "idle"]

\* The context of a step of caller p
RaceContext(p, name, params) ==
    [AdapterContext(exchange, RaceFaults, {}) EXCEPT
        !.trace = Append(trace, Event("step", name, Url("", p), params,
                                      Return("void")))]

\* createOrder up to the completion of its awaited validateOrder
RaceValidate(p) ==
    /\ phase[p] = "idle"
    /\ \E params \in RaceInputs :
        \E v \in validateOrder(Called(RaceContext(p, "validate", params),
                                      "createOrder", "", params), params, FALSE) :
            /\ op' = [op EXCEPT ![p] = Op("createOrder", "", params, {}, FALSE)]
            /\ result' = [result EXCEPT ![p] = v.c]
            /\ phase' = [phase EXCEPT ![p] =
                            IF v.c.type = "throw" THEN "done" ELSE "validated"]
            /\ trace' = v.x.trace
            /\ exchange' = v.x.ex
            /\ core' = core

\* createOrder from the POST on
RaceSubmit(p) ==
    /\ phase[p] = "validated"
    /\ \E r \in SubmitOrder(RaceContext(p, "submit", op[p].params), op[p].params) :
            /\ result' = [result EXCEPT ![p] = r.c]
            /\ phase' = [phase EXCEPT ![p] = "done"]
            /\ trace' = r.x.trace
            /\ exchange' = r.x.ex
            /\ UNCHANGED <<core, op>>

\* The free BTC leaves the exchange while a call is between its validation
\* and its submission
Withdraw ==
    /\ \E p \in Callers : phase[p] = "validated"
    /\ exchange.balances[1].available.v > 0
    /\ exchange' = [exchange EXCEPT !.balances[1] = WireBalance("BTC", Num(0))]
    /\ trace' = Append(trace, Event("withdraw", "BTC", Url("", ""), NoParams,
                                    Return("void")))
    /\ UNCHANGED <<core, op, result, phase>>

NextRace ==
    \/ \E p \in Callers : RaceValidate(p)
    \/ \E p \in Callers : RaceSubmit(p)
    \/ Withdraw

SpecRace == InitRace /\ [][NextRace]_vars

\* The caller whose step the event at position i belongs to
StepOf(i) ==
    CHOOSE k \in 1..i :
        /\ trace[k].ev = "step"
        /\ \A l \in 1..i : trace[l].ev = "step" => l <= k
Owner(i) == trace[StepOf(i)].url.arg

\* The positions of the events of a caller
Own(p, positions) ==
    {i \in positions : trace[i].ev \notin {"step", "withdraw"} /\ Owner(i) = p}

\* The free balance, in the balances getBalances returned at position i, of
\* the asset the order of caller p needs
SnapshotFree(p, i) ==
    LET bs == trace[i].reply.value
        k == CHOOSE j \in 1..Len(bs) : bs[j].asset = AssetToCheck(op[p].params)
    IN  bs[k].free.v

\* What the order of caller p requires: a limit buy its quantity times its
\* price, a sell its quantity
RaceRequired(p) ==
    IF op[p].params.side = "buy"
    THEN op[p].params.quantity.v * op[p].params.price.v
    ELSE op[p].params.quantity.v

\* C24: the balance check and the submission of createOrder are not
\* atomic. Every submission rests on the one snapshot of the balances its
\* own call read during validation, which covered the required amount then:
\* the caller reads the balances once, before its validateOrder returned,
\* and nothing is read again before the POST, whatever the other caller or
\* the exchange did in between.
C24_CheckedOnSnapshotOnly ==
    \A p \in Callers :
        \A j \in Own(p, RequestsOf("POST", "/orders")) :
            /\ \E i \in Own(p, Returns("validateOrder")) : i < j
            /\ Cardinality(Own(p, RequestsOf("GET", "/balances"))) = 1
            /\ Cardinality(Own(p, RequestsOf("POST", "/orders"))) = 1
            /\ \A i \in Own(p, Completions("getBalances")) :
                   /\ i < j
                   /\ \A v \in Own(p, Returns("validateOrder")) : i < v
                   /\ trace[i].reply.type = "return"
                   /\ SnapshotFree(p, i) >= RaceRequired(p)

\* Both callers sell MaxQty BTC, both validations return on the same free
\* balance MaxBal before either POST is sent, and the exchange accepts both
\* orders: together they need more than the free balance
C24_Witness ==
    /\ \A p \in Callers :
           /\ phase[p] = "done"
           /\ result[p].type = "return"
           /\ op[p].params.side = "sell"
           /\ \A i \in Own(p, Completions("getBalances")) : SnapshotFree(p, i) = MaxBal
    /\ \A i \in Returns("validateOrder"), j \in RequestsOf("POST", "/orders") : i < j
    /\ Cardinality(Returns("validateOrder")) = 2
    /\ Len(exchange.orders) = 2
    /\ RaceRequired("first") + RaceRequired("second") > MaxBal
    /\ RaceRequired("first") <= MaxBal

\* The free balance left the exchange after the validation returned, and
\* the order was submitted and accepted all the same
C24_WitnessWithdrawn ==
    /\ \E w \in 1..Len(trace) :
           /\ trace[w].ev = "withdraw"
           /\ \E i \in Own("first", Returns("validateOrder")),
                 j \in Own("first", RequestsOf("POST", "/orders")) :
                   i < w /\ w < j
    /\ op["first"].params.side = "sell"
    /\ result["first"].type = "return"
    /\ phase["first"] = "done"
    /\ FreeOf("BTC") = 0

\* getOrder returned an order with an id and nothing left to fill
NothingLeft ==
    /\ Closed
    /\ \E g \in Returns("getOrder") :
           /\ ~FalsyStr(trace[g].reply.value.orderId)
           /\ trace[g].reply.value.remainingQuantity = Num(0)

\* C25: closing an order that has nothing left to fill (remainingQuantity
\* = 0) never submits a closing order: the close operations still call
\* cancelOrder and send its DELETE, and once cancelOrder returned they fail
\* with InvalidOrderError 'Quantity must be greater than 0', raised by the
\* validateOrder of the closing order with quantity 0, before any balance is
\* read.
C25_NothingLeftToClose ==
    NothingLeft =>
        /\ RequestsOf("POST", "/orders") = {}
        /\ Cardinality(Calls("cancelOrder")) = 1
        /\ Cardinality(RequestsOf("DELETE", "/orders/")) = 1
        /\ Failed
        /\ Returns("cancelOrder") # {} =>
               /\ FailedWith("InvalidOrderError", "Quantity must be greater than 0")
               /\ \A k \in Calls("createOrder") : trace[k].body.quantity = Num(0)
               /\ \E v \in Throws("validateOrder") : trace[v].reply = result
               /\ Calls("getBalances") = {}

\* A filled order is closed at market: it is cancelled, and the closing
\* order of quantity 0 fails its validation
C25_Witness ==
    /\ NothingLeft
    /\ op.name = "closeOrderMarket"
    /\ HeldOrder.status = "canceled"
    /\ HeldOrder.remainingQuantity = Num(0)
    /\ Returns("cancelOrder") # {}
    /\ Calls("createOrder") # {}
    /\ FailedWith("InvalidOrderError", "Quantity must be greater than 0")
    /\ RequestsOf("POST", "/orders") = {}

====
